---------------------------- MODULE Spec2Model ----------------------------
(***************************************************************************)
(* A model of puddle-bot: the match-tracking poll cycle over the players   *)
(* and match_cache tables (match_tracker.py, database.py), the ranking-API *)
(* client with its retry policy and context management (api_client.py),   *)
(* and the token-bucket rate limiter (api_client.py).                      *)
(*                                                                         *)
(* Three specifications share the module:                                  *)
(*   Spec         the poll cycle of MatchTracker over the database         *)
(*   SpecApi      PuddleApiClient: __aenter__/__aexit__, _request, health  *)
(*   SpecLimiter  SimpleRateLimiter.acquire called by concurrent tasks     *)
(*                (FairSpecLimiter adds the scheduler's fairness)          *)
(***************************************************************************)
EXTENDS Integers, Sequences, FiniteSets, TLC

(***************************************************************************)
(* Bounds of the model                                                     *)
(***************************************************************************)
MaxPlayers == 2        \* player ids 1..MaxPlayers
MaxTime == 1           \* the database clock runs 0..MaxTime
MaxAnnounced == 2      \* the delivery counter of the observed match saturates here
FleetMaxHist == 2      \* history length when several players are tracked
FleetMaxTs == 1        \* timestamps 1..FleetMaxTs when several players are tracked
ScanMaxHist == 6       \* history length in the single-player world
ScanMaxTs == 3         \* timestamps 1..ScanMaxTs in the single-player world
MaxAttempts == 4       \* RetryPolicy.attempts ranges over 0..MaxAttempts
MaxCapacity == 2       \* SimpleRateLimiter.capacity ranges over 1..MaxCapacity
IntervalTicks == 2     \* SimpleRateLimiter.interval, in ticks of the monotonic clock
MaxTasks == 2          \* tasks that call SimpleRateLimiter.acquire
MaxDbMatches == 2      \* match ids of the direct database operations
MaxRows == 3           \* match_cache rows under the direct database operations
MaxKeep == 2           \* cache_size of cleanup_cache ranges over 0..MaxKeep

(***************************************************************************)
(* Program constants                                                       *)
(***************************************************************************)
MATCHES_TO_CHECK == 5
CACHE_SIZE == 20
PAGE_SIZE == 10

PlayerIds == 1..MaxPlayers
Names == {"A", "B"}
Chars == {"SO", "KY"}
Tasks == 1..MaxTasks

VARIABLES
    \* ---- database.py: the two tables and the clock behind CURRENT_TIMESTAMP
    players,        \* players table: function id -> name
    cache,          \* match_cache table: set of rows
    now,            \* database clock, in seconds
    \* ---- match_tracker.py: the position of the running poll cycle
    pc,             \* "idle" | "fetch_player" | "fetch_history" | "send" | "returned" | "raised"
    plist,          \* players.items() read at cycle start: sequence of <<name, id>>
    idx,            \* index in plist of the player being checked
    ratings,        \* player_data["ratings"] of the player being checked
    cidx,           \* index in ratings of the character being scanned
    player_cache,   \* get_player_cache(player_id), read once per player
    sendq,          \* reversed(new_matches_list) still to send
    new_count,      \* len(new_matches_list) of the scan
    raisedExc,      \* the exception that left poll_all_players ("" when none)
    \* ---- the upstream service of this run
    world,          \* "fleet" | "roster" | "scan": what the upstream returns in this run
    \* ---- observations
    probe,          \* the observed match: <<player_id, character, match_id>>
    announced,      \* deliveries of the observed match so far (saturating)
    seenNow,        \* the observed match was in the checked window of this cycle
    seenPrev,       \* ... and of the cycle before
    dupEver,        \* the observed match id occurred twice in one checked window
    undelivered,    \* the observed match was new in this cycle and its send did not succeed
    scanState,      \* "none" | "running" | "done" | "aborted": the latest per-character scan
    scanHist,       \* the history list that scan received
    scanCache,      \* the char_cache that scan compared against
    scanSends,      \* the sends that scan made: <<match_id, delivered, outcome, cleanup followed>>
    \* ---- api_client.py: PuddleApiClient
    retry,          \* self._retry: [attempts, backoff_base (ms), backoff_factor, retry_statuses]
    rate_limiter,   \* self._rate_limiter is configured
    session_external, \* self._session_external
    session,        \* self._session: "none" | "supplied" | "created"
    apc,            \* "idle" | "request" | "sleep" | "health" | "done": the call in progress
    op,             \* the operation called
    attempt,        \* attempt of _request
    last_err,       \* last_err of _request ("" for None)
    result,         \* how the call ended: [tag, exc, status, value]
    \* ---- api_client.py: SimpleRateLimiter
    rl_capacity,    \* self.capacity
    rl_tokens,      \* self._tokens
    rl_elapsed,     \* time.monotonic() - self._last, counted up to the interval
    rl_lock,        \* the task that holds self._lock (0 when free)
    rl_pc,          \* per task: "idle" | "enter" | "sleep" | "done"
    rl_timer,       \* per task: ticks left of its asyncio.sleep
    rl_granted,     \* tokens granted since the bucket was last filled
    rl_refill_at,   \* ticks since the previous fill at the latest refill (-1: none yet)
    \* ---- observations of the client
    requests,       \* HTTP requests issued by the call in progress
    sleeps,         \* backoff sleeps of the call in progress, in ms
    lastOutcome,    \* what the latest HTTP request of the call did
    lastExit,       \* the latest __aexit__: [held, closed]
    \* ---- observations of the database operations
    dbOp,           \* the latest operation: [op, player_id, existed, deleted, old]
    createdOrder,   \* the keys of the match_cache rows, in the order of their creation
    \* ---- commands/player_management.py: the command being handled
    cmdpc,          \* "idle" | "lookup" | "done" | "raised"
    cmd,            \* [op, player_id, name]: the command and its arguments
    reply,          \* the message sent to the invoking user ("" when none)
    cmdExc,         \* the exception that left the handler ("" when none)
    lookup,         \* what api.get_player did for the command
    tablesBefore,   \* <<players, cache>> when the command was invoked
    \* ---- commands/base_command.py, admin.py, misc.py: an invoked command
    owner,          \* BOT_OWNER_ID
    invoker,        \* interaction.user.id
    admcmd,         \* the name of the invoked command
    admpc,          \* "idle" | "check" | "body" | "done" | "rejected"
    admMsgs,        \* the messages sent in answer to the interaction
    admEffects,     \* what the body of the command did
    botClosed,      \* bot.close() was called
    \* ---- commands/leaderboard.py: one call of _build_leaderboard_pages
    lbData,         \* data: the leaderboard entries, best first
    lbCharacter,    \* character: the filter ("" for None)
    lbPageSize,     \* page_size
    lbPages,        \* the pages returned
    lbpc,           \* "idle" | "built"
    \* ---- commands/leaderboard.py: one LeaderboardView over lbPages
    vwIndex,        \* self.index (0-based)
    vwPrevDisabled, \* self.prev_button.disabled
    vwNextDisabled, \* self.next_button.disabled
    vwShown,        \* the embed the message shows
    vwpc,           \* "none" | "open"
    \* ---- commands/leaderboard.py: one call of _fetch_leaderboard
    ftCharacter,    \* character: the filter ("" for None)
    ftLookup,       \* what api.get_top / api.get_top_char did
    ftPayload,      \* the JSON value the upstream answered with
    ftResult,       \* the list returned
    ftpc,           \* "idle" | "returned" | "raised"
    \* ---- utils/helpers.py, i18n.py: one call of a function without state
    fnIn,           \* the arguments
    fnOut,          \* the value returned
    fnpc,           \* "idle", or the name of the function that returned
    \* ---- bot.py: GGSTBot, its connection and its poll_matches loop
    botReady,       \* the connection is ready (wait_until_ready returns)
    botChannel,     \* get_channel(CHANNEL_ID) resolves
    botLoops,       \* the tasks poll_matches.start() created, in order
    botStartCalls,  \* calls of poll_matches.start()
    botSkipped,     \* on_ready calls that found the loop running
    botEvents,      \* ready events dispatched
    botBegun,       \* invocations of poll_matches begun
    botEnded,       \* invocations of poll_matches returned
    \* ---- match_tracker.py: one character of one player over many cycles
    srLatest,       \* number of the newest match the upstream lists
    srQueue,        \* reversed(new_matches_list) still to send
    srpc,           \* "idle" | "send"
    srDelivered,    \* match ids delivered to the channel so far
    srTwice,        \* a match id was delivered a second time
    srPending,      \* match ids whose last send failed
    srFailures,     \* sends that failed so far
    srSends,        \* sends of the scan in progress or last completed
    srInserted,     \* rows that scan inserted
    srRetried,      \* the last fetch queued every pending id of its window
    srLimit         \* matches the upstream comes to list in this run

pollVars == <<players, cache, now, pc, plist, idx, ratings, cidx, player_cache,
              sendq, new_count, raisedExc, world, probe, announced, seenNow,
              seenPrev, dupEver, undelivered, scanState, scanHist, scanCache,
              scanSends>>

apiVars == <<retry, rate_limiter, session_external, session, apc, op, attempt,
             last_err, result, requests, sleeps, lastOutcome, lastExit>>

rlVars == <<rl_capacity, rl_tokens, rl_elapsed, rl_lock, rl_pc, rl_timer, rl_granted, rl_refill_at>>

tableVars == <<players, cache, now>>

trackerVars == <<pc, plist, idx, ratings, cidx, player_cache, sendq, new_count,
                 raisedExc, world, probe, announced, seenNow, seenPrev, dupEver,
                 undelivered, scanState, scanHist, scanCache, scanSends>>

dbVars == <<dbOp, createdOrder>>

cmdVars == <<cmdpc, cmd, reply, cmdExc, lookup, tablesBefore>>

adminVars == <<owner, invoker, admcmd, admpc, admMsgs, admEffects, botClosed>>

lbVars == <<lbData, lbCharacter, lbPageSize, lbPages, lbpc>>

viewVars == <<vwIndex, vwPrevDisabled, vwNextDisabled, vwShown, vwpc>>

\* The components added after the leaderboard pages
fetchVars == <<ftCharacter, ftLookup, ftPayload, ftResult, ftpc>>

fnVars == <<fnIn, fnOut, fnpc>>

botVars == <<botReady, botChannel, botLoops, botStartCalls, botSkipped,
             botEvents, botBegun, botEnded>>

seriesVars == <<srLatest, srQueue, srpc, srDelivered, srTwice, srPending,
                srFailures, srSends, srInserted, srRetried, srLimit>>

restVars == <<viewVars, fetchVars, fnVars, botVars, seriesVars>>

extVars == <<dbVars, cmdVars, adminVars, lbVars, restVars>>

vars == <<pollVars, apiVars, rlVars, extVars>>

(***************************************************************************)
(* Generic helpers                                                         *)
(***************************************************************************)
Min(a, b) == IF a <= b THEN a ELSE b

Take(s, n) == SubSeq(s, 1, Min(n, Len(s)))

Reverse(s) == [i \in 1..Len(s) |-> s[Len(s) + 1 - i]]

SeqsUpTo(S, n) == UNION {[1..k -> S] : k \in 0..n}

Orderings(S) == {s \in [1..Cardinality(S) -> S] :
                    \A i, j \in 1..Cardinality(S) : i # j => s[i] # s[j]}

(***************************************************************************)
(* Exception classes.  ApiError, ApiResponseError and ApiDecodeError are   *)
(* declared in api_client.py; the others are the aiohttp, asyncio, discord *)
(* and builtin classes the except clauses of the source name.              *)
(* aiohttp.ServerTimeoutError derives from both ClientError and            *)
(* asyncio.TimeoutError; the total-timeout of aiohttp.ClientTimeout raises *)
(* a plain asyncio.TimeoutError, which is no ClientError.                  *)
(***************************************************************************)
ExcBases(e) ==
    CASE e = "ClientConnectionError" -> {"ClientError"}
      [] e = "ClientPayloadError"    -> {"ClientError"}
      [] e = "ContentTypeError"      -> {"ClientError"}
      [] e = "ServerTimeoutError"    -> {"ClientError", "TimeoutError"}
      [] e = "JSONDecodeError"       -> {"ValueError"}
      [] e = "HTTPException"         -> {"DiscordException"}
      [] e = "Forbidden"             -> {"HTTPException"}
      [] e = "NotFound"              -> {"HTTPException"}
      [] e = "ApiResponseError"      -> {"ApiError"}
      [] e = "ApiDecodeError"        -> {"ApiError"}
      [] OTHER                       -> {}

RECURSIVE IsInstance(_, _)
IsInstance(e, cls) ==
    \/ e = cls
    \/ cls = "Exception"
    \/ \E b \in ExcBases(e) : IsInstance(b, cls)

IsAny(e, classes) == \E c \in classes : IsInstance(e, c)

(***************************************************************************)
(* database.py                                                             *)
(***************************************************************************)
Row(p, ch, m, t) == [player_id |-> p, character |-> ch, match_id |-> m, created_at |-> t]

PairRows(c, p, ch) == {r \in c : r.player_id = p /\ r.character = ch}

\* get_player_cache: character -> the cached match ids of the player.  The
\* source returns lists ordered by created_at; callers only test membership.
get_player_cache(c, p) ==
    [ch \in Chars |-> {r.match_id : r \in PairRows(c, p, ch)}]

\* A faulty save that replaces the row it finds (INSERT OR REPLACE).
save_or_replace(c, p, ch, m, t) ==
    {r \in c : ~(r.player_id = p /\ r.character = ch /\ r.match_id = m)}
        \cup {[player_id |-> p, character |-> ch, match_id |-> m, created_at |-> t]}

\* A faulty save whose INSERT never reaches the table.
save_not_committed(c, p, ch, m, t) == c

\* save_match_to_cache: INSERT ... ON CONFLICT DO NOTHING / INSERT OR IGNORE
save_match_to_cache(c, p, ch, m, t) ==
    IF \E r \in c : r.player_id = p /\ r.character = ch /\ r.match_id = m
    THEN c
    ELSE c \cup {Row(p, ch, m, t)}

\* The sets of rows "ORDER BY created_at DESC LIMIT n" may select: rows that
\* share a created_at second are returned in an order SQL leaves open.
\* All rows newer than the n-th most recent second are selected, and of the
\* rows of that second as many as are still missing.
TopByCreated(rows, n) ==
    IF Cardinality(rows) <= n THEN {rows}
    ELSE IF n = 0 THEN {{}}
    ELSE LET newer(t) == {r \in rows : r.created_at > t}
             cut == CHOOSE t \in {r.created_at : r \in rows} :
                        /\ Cardinality(newer(t)) < n
                        /\ Cardinality({r \in rows : r.created_at >= t}) >= n
             tie == {r \in rows : r.created_at = cut}
         IN  {newer(cut) \cup T :
                 T \in {S \in SUBSET tie : Cardinality(S) = n - Cardinality(newer(cut))}}

\* A faulty cleanup whose DELETE removes nothing.
cleanup_cache_kept(c, p, ch, cache_size) == {c}

\* cleanup_cache: the tables the DELETE can leave
cleanup_cache(c, p, ch, cache_size) ==
    {c \ {r \in PairRows(c, p, ch) : r.match_id \notin {k.match_id : k \in K}} :
        K \in TopByCreated(PairRows(c, p, ch), cache_size)}

\* One Python dict assignment d[k] = v on a dict kept as a sequence of
\* <<key, value>> in key insertion order.
DictSet(d, k, v) ==
    IF \E i \in 1..Len(d) : d[i][1] = k
    THEN [i \in 1..Len(d) |-> IF d[i][1] = k THEN <<k, v>> ELSE d[i]]
    ELSE Append(d, <<k, v>>)

RECURSIVE DictOfRows(_, _)
DictOfRows(rows, d) ==
    IF rows = <<>> THEN d
    ELSE DictOfRows(Tail(rows), DictSet(d, Head(rows)[2], Head(rows)[1]))

\* A faulty insert that keeps the stored name of an id it finds.
add_player_ignore(tbl, p, name) ==
    IF p \in DOMAIN tbl THEN tbl
    ELSE [q \in DOMAIN tbl \cup {p} |-> IF q = p THEN name ELSE tbl[q]]

\* add_player: INSERT ... ON CONFLICT (id) DO UPDATE SET name / INSERT OR
\* REPLACE.  No code reads players.created_at, which the table also holds.
add_player(tbl, p, name) ==
    [q \in DOMAIN tbl \cup {p} |-> IF q = p THEN name ELSE tbl[q]]

\* A faulty removal that leaves the cache rows of the player.
remove_player_cache_kept(c, p) == c

\* remove_player: DELETE FROM match_cache WHERE player_id = p
remove_player_cache(c, p) == {r \in c : r.player_id # p}

\* remove_player: DELETE FROM players WHERE id = p
remove_player_row(tbl, p) == [q \in DOMAIN tbl \ {p} |-> tbl[q]]

\* get_all_players: the dicts name -> id the SELECT (no ORDER BY) can give
get_all_players(tbl) ==
    {DictOfRows([i \in 1..Len(o) |-> <<o[i], tbl[o[i]]>>], <<>>) :
        o \in Orderings(DOMAIN tbl)}


(***************************************************************************)
(* The upstream ranking service: what its endpoints can answer             *)
(***************************************************************************)
\* One entry of a history list.  opponent_id = 0 stands for an entry that
\* lacks the opponent_id key.
HistEntries(w) ==
    IF w # "scan"
    THEN [timestamp : 1..FleetMaxTs, opponent_id : {0, 1}]
    ELSE [timestamp : 1..ScanMaxTs, opponent_id : {1}]

\* The history endpoint lists the most recent match first.
MostRecentFirst(h) == \A i \in 1..(Len(h) - 1) : h[i].timestamp >= h[i + 1].timestamp

Histories(w) ==
    {h \in SeqsUpTo(HistEntries(w), IF w # "scan" THEN FleetMaxHist ELSE ScanMaxHist) :
        MostRecentFirst(h)}

HasKeys(m) == m.opponent_id # 0

\* match_id = f"{match['timestamp']}_{match['opponent_id']}"
match_id(m) == <<m.timestamp, m.opponent_id>>

MatchIds(w) == {match_id(m) : m \in {e \in HistEntries(w) : HasKeys(e)}}

\* An entry of player_data["ratings"]: a character code, a dict without
\* char_short/character ("MISSING"), or a value that is no dict ("NONDICT").
\* The upstream lists a character at most once.
RatingEntries == Chars \cup {"MISSING", "NONDICT"}

RatingLists(w) ==
    IF w = "scan" THEN {<<"SO">>}
    ELSE {r \in SeqsUpTo(IF w = "fleet" THEN RatingEntries \ {"KY"} ELSE RatingEntries, 2) :
            \A i, j \in 1..Len(r) : (i # j /\ r[i] \in Chars) => r[i] # r[j]}

RequestExceptions == {"ClientConnectionError", "ServerTimeoutError", "TimeoutError"}

\* What one session.get(...) / resp.json() can do.
\*   raise  : an exception, in the request ("get") or while reading the body ("json")
\*   status : a status other than 200
\*   json   : status 200 and a JSON body of the given shape
Responses(bodies) ==
    [kind : {"raise"}, exc : RequestExceptions, at : {"get"}, body : {<<>>}]
      \cup [kind : {"raise"}, exc : {"ContentTypeError", "JSONDecodeError"},
            at : {"json"}, body : {<<>>}]
      \cup [kind : {"status"}, exc : {""}, at : {""}, body : {<<>>}]
      \cup [kind : {"json"}, exc : {""}, at : {""}, body : bodies]

ProfileBodies(w) ==
    [shape : {"falsy", "nondict", "null_ratings"}, ratings : {<<>>}]
      \cup [shape : {"dict"}, ratings : RatingLists(w)]

HistoryBodies(w) ==
    [shape : {"falsy", "nondict", "null_history"}, history : {<<>>}]
      \cup [shape : {"dict"}, history : Histories(w)]

SendOutcomes ==
    {"ok", "HTTPException", "Forbidden", "NotFound", "ClientConnectionError", "TimeoutError"}

(***************************************************************************)
(* match_tracker.py                                                        *)
(***************************************************************************)
Return(v) == [tag |-> "return", exc |-> "", value |-> v]
Raise(e) == [tag |-> "raise", exc |-> e, value |-> <<>>]
None == [shape |-> "none"]

\* fetch_player_data: None for a status other than 200, for a body that is
\* no JSON and for an aiohttp.ClientError; any other exception propagates.
fetch_player_data(resp) ==
    IF resp.kind = "raise"
    THEN IF resp.at = "json" /\ IsAny(resp.exc, {"ContentTypeError", "JSONDecodeError"})
         THEN Return(None)
         ELSE IF IsInstance(resp.exc, "ClientError")
              THEN Return(None)
              ELSE Raise(resp.exc)
    ELSE IF resp.kind = "status"
         THEN Return(None)
         ELSE Return(resp.body)

\* fetch_character_history: the same shape as fetch_player_data
fetch_character_history(resp) ==
    IF resp.kind = "raise"
    THEN IF resp.at = "json" /\ IsAny(resp.exc, {"ContentTypeError", "JSONDecodeError"})
         THEN Return(None)
         ELSE IF IsInstance(resp.exc, "ClientError")
              THEN Return(None)
              ELSE Raise(resp.exc)
    ELSE IF resp.kind = "status"
         THEN Return(None)
         ELSE Return(resp.body)

\* The loop of process_character_matches that collects new_matches_list from
\* matches[:MATCHES_TO_CHECK]: an entry without its keys is skipped (KeyError),
\* an entry whose match_id is in char_cache is skipped.
RECURSIVE CollectNew(_, _)
CollectNew(ms, char_cache) ==
    IF ms = <<>> THEN <<>>
    ELSE IF ~HasKeys(Head(ms)) THEN CollectNew(Tail(ms), char_cache)
    ELSE IF match_id(Head(ms)) \in char_cache THEN CollectNew(Tail(ms), char_cache)
    ELSE <<Head(ms)>> \o CollectNew(Tail(ms), char_cache)

\* A faulty collection that scans the whole history instead of its head.
new_matches_unbounded(matches, char_cache) == CollectNew(matches, char_cache)

new_matches_list(matches, char_cache) ==
    CollectNew(Take(matches, MATCHES_TO_CHECK), char_cache)

\* The except clauses of poll_all_players around check_player
PollCatches(e) ==
    \/ IsAny(e, {"ClientError", "ServerTimeoutError"})
    \/ IsInstance(e, "DiscordException")
    \/ IsAny(e, {"KeyError", "ValueError", "TypeError"})

\* What channel.send did, as far as the scan is observed: delivered, failed
\* with an error of the chat platform, failed otherwise
SendKind(out) ==
    IF out = "ok" THEN "ok"
    ELSE IF IsInstance(out, "HTTPException") THEN "HTTPException"
    ELSE "other"

\* A faulty except clause that names only the two subclasses.
SendCatchesSubclasses(e) == e \in {"Forbidden", "NotFound"}

\* The except clause around channel.send in process_character_matches
SendCatches(e) == IsAny(e, {"HTTPException", "Forbidden", "NotFound"})

\* A faulty loop body that saves the match whatever the send did.
save_follows_always(out) == TRUE

\* save_match_to_cache is the statement after "await channel.send" in the
\* try block: it runs when the send returned
save_follows(out) == out = "ok"

EmptyCache == [ch \in Chars |-> {}]

\* Where the cycle stands next, as [pc, idx, cidx, exc].
AfterPlayer ==
    IF idx < Len(plist)
    THEN [pc |-> "fetch_player", idx |-> idx + 1, cidx |-> 0, exc |-> ""]
    ELSE [pc |-> "returned", idx |-> idx, cidx |-> 0, exc |-> ""]

\* An exception leaves check_player: caught by poll_all_players (the loop
\* goes on with the next player) or raised to the caller.
OnRaise(e) ==
    IF PollCatches(e)
    THEN AfterPlayer
    ELSE [pc |-> "raised", idx |-> idx, cidx |-> 0, exc |-> e]

\* The loop of check_player over the ratings from entry i on, up to the next
\* await (fetch_character_history) or the end of the player.
RECURSIVE NextChar(_, _)
NextChar(r, i) ==
    IF i > Len(r) THEN AfterPlayer
    ELSE IF r[i] = "NONDICT" THEN OnRaise("AttributeError")
    ELSE IF r[i] = "MISSING" THEN NextChar(r, i + 1)
    ELSE [pc |-> "fetch_history", idx |-> idx, cidx |-> i, exc |-> ""]

\* Move the cycle to ctl; the locals of check_player end with the player.
Goto(ctl, r, pcache) ==
    /\ pc' = ctl.pc
    /\ idx' = ctl.idx
    /\ cidx' = ctl.cidx
    /\ raisedExc' = ctl.exc
    /\ ratings' = IF ctl.pc = "fetch_history" THEN r ELSE <<>>
    /\ player_cache' = IF ctl.pc = "fetch_history" THEN pcache ELSE EmptyCache

CurName == plist[idx][1]
CurId == plist[idx][2]
CurChar == ratings[cidx]

Occurrences(ms, mid) ==
    Cardinality({i \in 1..Len(ms) : HasKeys(ms[i]) /\ match_id(ms[i]) = mid})

NoScan ==
    /\ scanState' = "none"
    /\ scanHist' = <<>>
    /\ scanCache' = {}
    /\ scanSends' = <<>>

\* poll_all_players up to the first await of the first player
PollStart ==
    /\ UNCHANGED <<apiVars, rlVars, extVars>>
    /\ pc \in {"idle", "returned", "raised"}
    /\ \E d \in get_all_players(players) :
          /\ plist' = d
          /\ pc' = IF d = <<>> THEN "returned" ELSE "fetch_player"
          /\ idx' = IF d = <<>> THEN 0 ELSE 1
    /\ cidx' = 0
    /\ raisedExc' = ""
    /\ ratings' = <<>>
    /\ player_cache' = EmptyCache
    /\ sendq' = <<>>
    /\ new_count' = 0
    /\ seenPrev' = seenNow
    /\ seenNow' = FALSE
    /\ undelivered' = FALSE
    /\ NoScan
    /\ UNCHANGED <<players, cache, now, world, probe, announced, dupEver>>

\* check_player: fetch_player_data answers; then up to the next await
FetchPlayer ==
    /\ UNCHANGED <<apiVars, rlVars, extVars>>
    /\ pc = "fetch_player"
    /\ \E resp \in Responses(ProfileBodies(world)) :
          LET res == fetch_player_data(resp)
              pcache == get_player_cache(cache, CurId)
          IN  IF res.tag = "raise" THEN Goto(OnRaise(res.exc), <<>>, EmptyCache)
              ELSE IF res.value.shape \in {"none", "falsy"}
                   THEN Goto(AfterPlayer, <<>>, EmptyCache)
              ELSE IF res.value.shape = "nondict"
                   THEN Goto(OnRaise("AttributeError"), <<>>, EmptyCache)
              ELSE IF res.value.shape = "null_ratings"
                   THEN Goto(OnRaise("TypeError"), <<>>, EmptyCache)
              ELSE Goto(NextChar(res.value.ratings, 1), res.value.ratings, pcache)
    /\ sendq' = <<>>
    /\ new_count' = 0
    /\ NoScan
    /\ UNCHANGED <<players, cache, now, plist, world, probe, announced, seenNow,
                   seenPrev, dupEver, undelivered>>

\* process_character_matches: fetch_character_history answers; the new
\* matches are collected; then up to the first channel.send or the next await
FetchHistory ==
    /\ UNCHANGED <<apiVars, rlVars, extVars>>
    /\ pc = "fetch_history"
    /\ \E resp \in Responses(HistoryBodies(world)) :
          LET res == fetch_character_history(resp)
              observed == <<CurId, CurChar>> = <<probe[1], probe[2]>>
          IN  IF res.tag = "raise" \/ res.value.shape # "dict"
              THEN /\ Goto(IF res.tag = "raise" THEN OnRaise(res.exc)
                           ELSE IF res.value.shape = "nondict" THEN OnRaise("AttributeError")
                           ELSE IF res.value.shape = "null_history" THEN OnRaise("TypeError")
                           ELSE NextChar(ratings, cidx + 1),
                           ratings, player_cache)
                   /\ sendq' = <<>>
                   /\ new_count' = 0
                   /\ NoScan
                   /\ UNCHANGED <<seenNow, dupEver, undelivered>>
              ELSE LET matches == res.value.history
                       new == new_matches_list(matches, player_cache[CurChar])
                       occ == Occurrences(Take(matches, MATCHES_TO_CHECK), probe[3])
                   IN  /\ sendq' = Reverse(new)
                       /\ new_count' = Len(new)
                       /\ scanHist' = matches
                       /\ scanCache' = player_cache[CurChar]
                       /\ scanSends' = <<>>
                       /\ seenNow' = IF observed THEN occ >= 1 ELSE seenNow
                       /\ dupEver' = (dupEver \/ (observed /\ occ >= 2))
                       /\ undelivered' = IF observed
                                         THEN \E i \in 1..Len(new) : match_id(new[i]) = probe[3]
                                         ELSE undelivered
                       /\ IF new = <<>>
                          THEN /\ scanState' = "done"
                               /\ Goto(NextChar(ratings, cidx + 1), ratings, player_cache)
                          ELSE /\ scanState' = "running"
                               /\ pc' = "send"
                               /\ UNCHANGED <<idx, cidx, raisedExc, ratings, player_cache>>
    /\ UNCHANGED <<players, cache, now, plist, world, probe, announced, seenPrev>>

\* process_character_matches: one channel.send of the loop answers; the match
\* is saved after a delivered send; after the last one the cache is cleaned
\* up and the scan returns
Send ==
    /\ UNCHANGED <<apiVars, rlVars, extVars>>
    /\ pc = "send"
    /\ \E out \in SendOutcomes :
          LET m == Head(sendq)
              mid == match_id(m)
              observed == <<CurId, CurChar, mid>> = probe
              saved == IF save_follows(out)
                       THEN save_match_to_cache(cache, CurId, CurChar, mid, now)
                       ELSE cache
          IN  IF out = "ok" \/ SendCatches(out)
              THEN /\ scanSends' = Append(scanSends, <<mid, out = "ok", SendKind(out), Tail(sendq) = <<>>>>)
                   /\ announced' = IF observed /\ out = "ok"
                                   THEN Min(announced + 1, MaxAnnounced)
                                   ELSE announced
                   /\ undelivered' = IF observed /\ out = "ok" THEN FALSE ELSE undelivered
                   /\ IF Tail(sendq) = <<>>
                      THEN /\ \E c2 \in cleanup_cache(saved, CurId, CurChar, CACHE_SIZE) :
                                 cache' = c2
                           /\ sendq' = <<>>
                           /\ scanState' = "done"
                           /\ Goto(NextChar(ratings, cidx + 1), ratings, player_cache)
                      ELSE /\ cache' = saved
                           /\ sendq' = Tail(sendq)
                           /\ UNCHANGED <<pc, idx, cidx, raisedExc, ratings,
                                          player_cache, scanState>>
              ELSE /\ scanSends' = Append(scanSends, <<mid, FALSE, SendKind(out), FALSE>>)
                   /\ scanState' = "aborted"
                   /\ sendq' = <<>>
                   /\ Goto(OnRaise(out), ratings, player_cache)
                   /\ UNCHANGED <<cache, announced, undelivered>>
    /\ UNCHANGED <<players, now, plist, new_count, world, probe, seenNow, seenPrev,
                   dupEver, scanHist, scanCache>>

\* The database clock advances
Tick ==
    /\ UNCHANGED <<apiVars, rlVars, extVars>>
    /\ now < MaxTime
    /\ now' = now + 1
    /\ UNCHANGED <<players, cache, pc, plist, idx, ratings, cidx, player_cache,
                   sendq, new_count, raisedExc, world, probe, announced, seenNow,
                   seenPrev, dupEver, undelivered, scanState, scanHist, scanCache,
                   scanSends>>

(***************************************************************************)
(* api_client.py: RetryPolicy                                              *)
(***************************************************************************)
RECURSIVE Pow(_, _)
Pow(b, n) == IF n = 0 THEN 1 ELSE b * Pow(b, n - 1)

\* A faulty backoff whose exponent is the attempt itself.
compute_sleep_late(policy, n) == policy.backoff_base * Pow(policy.backoff_factor, n)

\* RetryPolicy.compute_sleep; seconds are kept as integer milliseconds
compute_sleep(policy, n) == policy.backoff_base * Pow(policy.backoff_factor, n - 1)

\* The policies of a run: the default backoff (0.5 s, factor 2.0) or another
\* one, the default retry statuses or another set.
RetryPolicies ==
    {[attempts |-> a, backoff_base |-> b[1], backoff_factor |-> b[2], retry_statuses |-> rs] :
        a \in 0..MaxAttempts,
        b \in {<<500, 2>>, <<100, 3>>},
        rs \in {{500, 502, 503, 504}, {429}}}

(***************************************************************************)
(* api_client.py: SimpleRateLimiter                                        *)
(***************************************************************************)
Max(a, b) == IF a >= b THEN a ELSE b

\* A task calls acquire(): it stands at "async with self._lock"
RlCall(t) ==
    /\ rl_pc[t] \in {"idle", "done"}
    /\ rl_pc' = [rl_pc EXCEPT ![t] = "enter"]
    /\ UNCHANGED <<rl_capacity, rl_tokens, rl_elapsed, rl_lock, rl_timer,
                   rl_granted, rl_refill_at>>

\* A faulty test that refills the bucket at every call.
refill_due_always(elapsed) == TRUE

\* "if elapsed >= self.interval"
refill_due(elapsed) == elapsed >= IntervalTicks

\* acquire() from the moment the lock is obtained up to its return or to its
\* asyncio.sleep, which is awaited with the lock held.  asyncio.Lock is not
\* reentrant: whoever holds it, the lock is obtained only when it is free.
RlEnter(t) ==
    /\ rl_pc[t] = "enter"
    /\ rl_lock = 0
    /\ LET refill == refill_due(rl_elapsed)
           tokens == IF refill THEN rl_capacity ELSE rl_tokens
           to_sleep == IF rl_elapsed < IntervalTicks
                       THEN IntervalTicks - rl_elapsed
                       ELSE IntervalTicks
       IN  /\ rl_elapsed' = IF refill THEN 0 ELSE rl_elapsed
           /\ rl_refill_at' = IF refill THEN rl_elapsed ELSE rl_refill_at
           /\ rl_granted' = (IF refill THEN 0 ELSE rl_granted) + (IF tokens = 0 THEN 0 ELSE 1)
           /\ IF tokens = 0
              THEN /\ rl_tokens' = tokens
                   /\ rl_lock' = t
                   /\ rl_pc' = [rl_pc EXCEPT ![t] = "sleep"]
                   /\ rl_timer' = [rl_timer EXCEPT ![t] = Max(1, to_sleep)]
              ELSE /\ rl_tokens' = tokens - 1
                   /\ rl_lock' = 0
                   /\ rl_pc' = [rl_pc EXCEPT ![t] = "done"]
                   /\ UNCHANGED rl_timer
    /\ UNCHANGED rl_capacity

\* The sleep of acquire() is over: "return await self.acquire()" is called
\* inside the "async with" block, so the task stands at "async with
\* self._lock" again while its outer frame still holds the lock.
RlWake(t) ==
    /\ rl_pc[t] = "sleep"
    /\ rl_timer[t] = 0
    /\ rl_pc' = [rl_pc EXCEPT ![t] = "enter"]
    /\ UNCHANGED <<rl_capacity, rl_tokens, rl_elapsed, rl_lock, rl_timer,
                   rl_granted, rl_refill_at>>

\* The monotonic clock advances by one tick
RlTickOnly ==
    /\ rl_elapsed' = Min(rl_elapsed + 1, IntervalTicks)
    /\ rl_timer' = [t \in Tasks |-> Max(0, rl_timer[t] - 1)]
    /\ UNCHANGED <<rl_capacity, rl_tokens, rl_lock, rl_pc, rl_granted, rl_refill_at>>

(***************************************************************************)
(* api_client.py: PuddleApiClient                                          *)
(***************************************************************************)
Statuses == {200, 399, 400, 429, 503}

Whitespace == {" ", "\n", "\t"}

\* Response bodies of /health, as sequences of characters
Bodies ==
    {<<"O", "K">>, <<" ", "O", "K", "\n">>, <<"\t", "O", "K">>, <<"O", "K", " ", "\n">>,
     <<>>, <<" ">>, <<"o", "k">>, <<"O", " ", "K">>, <<"O", "K", "!">>}

RECURSIVE LStrip(_)
LStrip(s) == IF s # <<>> /\ Head(s) \in Whitespace THEN LStrip(Tail(s)) ELSE s

RECURSIVE RStrip(_)
RStrip(s) ==
    IF s # <<>> /\ s[Len(s)] \in Whitespace THEN RStrip(SubSeq(s, 1, Len(s) - 1)) ELSE s

\* A faulty comparison of the untrimmed body.
Untrimmed(s) == s

\* str.strip()
Strip(s) == RStrip(LStrip(s))

\* What one HTTP request of _request can do:
\*   transport : the request, or the read of its body, raises
\*   response  : a status arrives; below 400 resp.json() gives a value or raises
ApiOutcomes ==
    [kind : {"transport"}, exc : RequestExceptions \cup {"ClientPayloadError"},
     status : {0}, read : {""}, body : {<<>>}]
      \cup [kind : {"response"}, exc : {""}, status : {st \in Statuses : st >= 400},
            read : {"text"}, body : {<<>>}]
      \cup [kind : {"response"}, exc : {""}, status : {st \in Statuses : st < 400},
            read : {"json", "ContentTypeError", "JSONDecodeError"}, body : {<<>>}]

\* What the GET of health() can do; resp.text() gives the body or raises
HealthOutcomes ==
    [kind : {"transport"}, exc : RequestExceptions, status : {0}, read : {""}, body : {<<>>}]
      \cup [kind : {"response"}, exc : {""}, status : {st \in Statuses : st >= 400},
            read : {"text"}, body : {<<>>}]
      \cup [kind : {"response"}, exc : {""}, status : {st \in Statuses : st < 400},
            read : {"text"}, body : Bodies]
      \cup [kind : {"response"}, exc : {""}, status : {st \in Statuses : st < 400},
            read : {"ClientPayloadError", "UnicodeDecodeError"}, body : {<<>>}]

NoOutcome == [kind |-> "none", exc |-> "", status |-> 0, read |-> "", body |-> <<>>]

Pending == [tag |-> "pending", exc |-> "", status |-> 0, value |-> ""]
ApiReturn(v) == [tag |-> "return", exc |-> "", status |-> 0, value |-> v]
ApiRaise(e, st) == [tag |-> "raise", exc |-> e, status |-> st, value |-> ""]

DataOps == {"get_player", "get_player_history", "get_top", "get_top_char", "get_popularity"}

\* A faulty guard that lets a call through without a session.
session_unchecked(sess) == FALSE

\* "if self._session is None" of _request and of health
session_missing(sess) == sess = "none"

\* A faulty test that grants one attempt too many.
attempts_remain_late(policy, n) == n <= policy.attempts

\* "attempt < self._retry.attempts" of the two retry branches
attempts_remain(policy, n) == n < policy.attempts

\* A faulty test that takes every error status for a retry status.
retry_status_any(policy, st) == TRUE

\* "status in self._retry.retry_statuses"
retry_status(policy, st) == st \in policy.retry_statuses

\* [next, exc, status, err]: what _request does next and its last_err
Step(nxt, e, st, err) == [next |-> nxt, exc |-> e, status |-> st, err |-> err]

\* An exception e raised inside the try block of _request meets
\* "except (aiohttp.ClientError, asyncio.TimeoutError)"
on_exception(policy, n, e, st, err) ==
    IF IsAny(e, {"ClientError", "TimeoutError"})
    THEN IF attempts_remain(policy, n)
         THEN Step("sleep", "", 0, e)
         ELSE Step("raise", e, st, e)
    ELSE Step("raise", e, st, err)

\* The body of the while loop of _request after the request of attempt n
request_step(policy, n, out, err) ==
    IF out.kind = "transport" THEN on_exception(policy, n, out.exc, 0, err)
    ELSE IF out.status >= 400
         THEN IF retry_status(policy, out.status) /\ attempts_remain(policy, n)
              THEN Step("sleep", "", 0, err)
              ELSE on_exception(policy, n, "ApiResponseError", out.status, err)
    ELSE IF out.read = "json" THEN Step("return", "", 0, err)
    ELSE IF IsAny(out.read, {"ContentTypeError", "JSONDecodeError"})
         THEN on_exception(policy, n, "ApiDecodeError", 0, err)
    ELSE on_exception(policy, n, out.read, 0, err)

\* The head of the while loop of _request with attempt = n: the next attempt
\* begins (with rate_limiter.acquire() when a limiter is configured), or the
\* loop is left and last_err, if any, is raised.
LoopHead(n, err) ==
    IF n < retry.attempts
    THEN /\ attempt' = n + 1
         /\ apc' = "request"
         /\ result' = Pending
         /\ rl_pc' = IF rate_limiter THEN [rl_pc EXCEPT ![1] = "enter"] ELSE rl_pc
    ELSE /\ attempt' = n
         /\ apc' = "done"
         /\ result' = IF err # "" THEN ApiRaise(err, 0) ELSE ApiReturn("None")
         /\ UNCHANGED rl_pc

\* No call is in progress and none is observed
NoCall ==
    /\ apc' = "idle"
    /\ op' = ""
    /\ attempt' = 0
    /\ last_err' = ""
    /\ result' = Pending
    /\ requests' = 0
    /\ sleeps' = <<>>
    /\ lastOutcome' = NoOutcome

\* __aenter__
ApiEnter ==
    /\ UNCHANGED <<pollVars, rlVars, extVars>>
    /\ apc \in {"idle", "done"}
    /\ session' = IF session = "none" THEN "created" ELSE session
    /\ NoCall
    /\ UNCHANGED <<retry, rate_limiter, session_external, lastExit>>

\* __aexit__
ApiExit ==
    /\ UNCHANGED <<pollVars, rlVars, extVars>>
    /\ apc \in {"idle", "done"}
    /\ lastExit' = [held |-> session,
                    closed |-> ~session_external /\ session # "none"]
    /\ session' = "none"
    /\ NoCall
    /\ UNCHANGED <<retry, rate_limiter, session_external>>

\* A data operation or health() is called, up to its first await
ApiCall ==
    /\ UNCHANGED <<pollVars, extVars>>
    /\ apc \in {"idle", "done"}
    /\ \E o \in DataOps \cup {"health"} :
          /\ op' = o
          /\ IF session_missing(session)
             THEN /\ apc' = "done"
                  /\ result' = ApiRaise("RuntimeError", 0)
                  /\ attempt' = 0
                  /\ UNCHANGED rl_pc
             ELSE IF o = "health"
                  THEN /\ apc' = "health"
                       /\ result' = Pending
                       /\ attempt' = 0
                       /\ UNCHANGED rl_pc
                  ELSE LoopHead(0, "")
    /\ last_err' = ""
    /\ requests' = 0
    /\ sleeps' = <<>>
    /\ lastOutcome' = NoOutcome
    /\ UNCHANGED <<retry, rate_limiter, session_external, session, lastExit,
                   rl_capacity, rl_tokens, rl_elapsed, rl_lock, rl_timer,
                   rl_granted, rl_refill_at>>

\* _request: the request of the current attempt answers (once the limiter,
\* if any, granted its token), up to the next await or the end of the call
ApiRequest ==
    /\ UNCHANGED <<pollVars, rlVars, extVars>>
    /\ apc = "request"
    /\ rate_limiter => rl_pc[1] = "done"
    /\ \E out \in ApiOutcomes :
          LET st == request_step(retry, attempt, out, last_err)
          IN  /\ lastOutcome' = out
              /\ last_err' = st.err
              /\ IF st.next = "sleep"
                 THEN /\ apc' = "sleep"
                      /\ sleeps' = Append(sleeps, compute_sleep(retry, attempt))
                      /\ result' = Pending
                 ELSE /\ apc' = "done"
                      /\ sleeps' = sleeps
                      /\ result' = IF st.next = "return" THEN ApiReturn("json")
                                   ELSE ApiRaise(st.exc, st.status)
    /\ requests' = requests + 1
    /\ UNCHANGED <<retry, rate_limiter, session_external, session, op, attempt, lastExit>>

\* _request: the backoff sleep is over, the loop goes on
ApiWake ==
    /\ UNCHANGED <<pollVars, extVars>>
    /\ apc = "sleep"
    /\ LoopHead(attempt, last_err)
    /\ UNCHANGED <<retry, rate_limiter, session_external, session, op, last_err,
                   requests, sleeps, lastOutcome, lastExit,
                   rl_capacity, rl_tokens, rl_elapsed, rl_lock, rl_timer,
                   rl_granted, rl_refill_at>>

\* What health() returns or raises for the answer of its GET
health_result(out) ==
    IF out.kind = "transport"
    THEN IF IsAny(out.exc, {"ClientError", "TimeoutError", "ApiError"})
         THEN ApiReturn("False")
         ELSE ApiRaise(out.exc, 0)
    ELSE IF out.status >= 400 THEN ApiReturn("False")
    ELSE IF out.read # "text" THEN ApiReturn("False")
    ELSE IF Strip(out.body) = <<"O", "K">> THEN ApiReturn("True")
    ELSE ApiReturn("False")

\* health(): its GET answers
ApiHealth ==
    /\ UNCHANGED <<pollVars, rlVars, extVars>>
    /\ apc = "health"
    /\ \E out \in HealthOutcomes :
          /\ lastOutcome' = out
          /\ result' = health_result(out)
    /\ apc' = "done"
    /\ requests' = requests + 1
    /\ UNCHANGED <<retry, rate_limiter, session_external, session, op, attempt,
                   last_err, sleeps, lastExit>>

\* The limiter of the client: the task of _request is task 1
ApiLimiterEnter == UNCHANGED <<pollVars, apiVars, extVars>> /\ RlEnter(1)

ApiLimiterWake == UNCHANGED <<pollVars, apiVars, extVars>> /\ RlWake(1)

ApiTick == UNCHANGED <<pollVars, apiVars, extVars>> /\ rate_limiter /\ RlTickOnly

(***************************************************************************)
(* Concurrent tasks on one SimpleRateLimiter                               *)
(***************************************************************************)
LimiterCall == UNCHANGED <<pollVars, apiVars, extVars>> /\ \E t \in Tasks : RlCall(t)

LimiterEnter == UNCHANGED <<pollVars, apiVars, extVars>> /\ \E t \in Tasks : RlEnter(t)

LimiterWake == UNCHANGED <<pollVars, apiVars, extVars>> /\ \E t \in Tasks : RlWake(t)

LimiterTick == UNCHANGED <<pollVars, apiVars, extVars>> /\ RlTickOnly

(***************************************************************************)
(* Initial states and specifications                                       *)
(***************************************************************************)
ApiQuiet ==
    /\ retry = [attempts |-> 3, backoff_base |-> 500, backoff_factor |-> 2,
                retry_statuses |-> {500, 502, 503, 504}]
    /\ rate_limiter = FALSE
    /\ session_external = FALSE
    /\ session = "none"
    /\ apc = "idle"
    /\ op = ""
    /\ attempt = 0
    /\ last_err = ""
    /\ result = Pending
    /\ requests = 0
    /\ sleeps = <<>>
    /\ lastOutcome = NoOutcome
    /\ lastExit = [held |-> "none", closed |-> FALSE]

RlInit(capacities) ==
    /\ rl_capacity \in capacities
    /\ rl_tokens = rl_capacity
    /\ rl_elapsed = 0
    /\ rl_lock = 0
    /\ rl_pc = [t \in Tasks |-> "idle"]
    /\ rl_timer = [t \in Tasks |-> 0]
    /\ rl_granted = 0
    /\ rl_refill_at = -1

NoDbOp == [op |-> "none", player_id |-> 0, existed |-> FALSE, deleted |-> 0, old |-> ""]

\* No database operation, command or page observed
DbQuiet ==
    /\ dbOp = NoDbOp
    /\ createdOrder = <<>>

NoCmd == [op |-> "", player_id |-> 0, name |-> ""]

CmdQuiet ==
    /\ cmdpc = "idle"
    /\ cmd = NoCmd
    /\ reply = ""
    /\ cmdExc = ""
    /\ lookup = Pending
    /\ tablesBefore = <<players, cache>>

AdminIdle ==
    /\ invoker = 0
    /\ admcmd = ""
    /\ admpc = "idle"
    /\ admMsgs = <<>>
    /\ admEffects = {}
    /\ botClosed = FALSE

AdminQuiet ==
    /\ owner = 1
    /\ AdminIdle

\* No embed shown yet
NoPage ==
    [title |-> "", description |-> "", lines |-> <<>>,
     footer |-> [page_num |-> 0, page_total |-> 0]]

ViewQuiet ==
    /\ vwIndex = 0
    /\ vwPrevDisabled = TRUE
    /\ vwNextDisabled = TRUE
    /\ vwShown = NoPage
    /\ vwpc = "none"

\* JSON values: null, a scalar, a list of entries, an object as the
\* sequence of its <<key, value>> members
JNull == [type |-> "null", truthy |-> FALSE, items |-> <<>>, fields |-> <<>>]

FetchQuiet ==
    /\ ftCharacter = ""
    /\ ftLookup = Pending
    /\ ftPayload = JNull
    /\ ftResult = <<>>
    /\ ftpc = "idle"

FnQuiet ==
    /\ fnIn = 0
    /\ fnOut = 0
    /\ fnpc = "idle"

BotQuiet ==
    /\ botReady = FALSE
    /\ botChannel = FALSE
    /\ botLoops = <<>>
    /\ botStartCalls = 0
    /\ botSkipped = 0
    /\ botEvents = 0
    /\ botBegun = 0
    /\ botEnded = 0

SeriesStart(limit) ==
    /\ srLimit = limit
    /\ srLatest = 0
    /\ srQueue = <<>>
    /\ srpc = "idle"
    /\ srDelivered = {}
    /\ srTwice = FALSE
    /\ srPending = {}
    /\ srFailures = 0
    /\ srSends = 0
    /\ srInserted = 0
    /\ srRetried = TRUE

SeriesQuiet == SeriesStart(0)

RestQuiet ==
    /\ ViewQuiet
    /\ FetchQuiet
    /\ FnQuiet
    /\ BotQuiet
    /\ SeriesQuiet

LbQuiet ==
    /\ lbData = <<>>
    /\ lbCharacter = ""
    /\ lbPageSize = PAGE_SIZE
    /\ lbPages = <<>>
    /\ lbpc = "idle"

ExtQuiet ==
    /\ DbQuiet
    /\ CmdQuiet
    /\ AdminQuiet
    /\ LbQuiet
    /\ RestQuiet

PlayerTables == UNION {[S -> Names] : S \in SUBSET PlayerIds}

InitPoll(w, tables, probes) ==
    /\ world = w
    /\ players \in tables
    /\ cache = {}
    /\ now = 0
    /\ pc = "idle"
    /\ plist = <<>>
    /\ idx = 0
    /\ ratings = <<>>
    /\ cidx = 0
    /\ player_cache = EmptyCache
    /\ sendq = <<>>
    /\ new_count = 0
    /\ raisedExc = ""
    /\ probe \in probes
    /\ announced = 0
    /\ seenNow = FALSE
    /\ seenPrev = FALSE
    /\ dupEver = FALSE
    /\ undelivered = FALSE
    /\ scanState = "none"
    /\ scanHist = <<>>
    /\ scanCache = {}
    /\ scanSends = <<>>
    /\ ExtQuiet

\* The worlds of a run:
\*   fleet   up to MaxPlayers tracked players, one character, short histories
\*   roster  one tracked player with up to two characters, short histories
\*   scan    one tracked player, one character, histories longer than
\*           MATCHES_TO_CHECK (the observed match is of an untracked player)
Init ==
    /\ \/ InitPoll("fleet", PlayerTables,
                   {<<p, "SO", m>> : p \in PlayerIds, m \in MatchIds("fleet")})
       \/ InitPoll("roster", {[p \in {1} |-> "A"]},
                   {<<1, ch, m>> : ch \in Chars, m \in MatchIds("roster")})
       \/ InitPoll("scan", {[p \in {1} |-> "A"]}, {<<MaxPlayers + 1, "SO", <<1, 1>>>>})
    /\ ApiQuiet
    /\ RlInit({1})

Next ==
    \/ PollStart
    \/ FetchPlayer
    \/ FetchHistory
    \/ Send
    \/ Tick

Spec == Init /\ [][Next]_vars

\* No poll cycle: no tracked player, nothing observed
PollQuiet == InitPoll("scan", {<<>>}, {<<MaxPlayers + 1, "SO", <<1, 1>>>>})

\* A client as constructed: any policy, with or without a limiter, with or
\* without a session supplied by the caller
InitApi ==
    /\ PollQuiet
    /\ retry \in RetryPolicies
    /\ rate_limiter \in BOOLEAN
    /\ session_external \in BOOLEAN
    /\ session = IF session_external THEN "supplied" ELSE "none"
    /\ apc = "idle"
    /\ op = ""
    /\ attempt = 0
    /\ last_err = ""
    /\ result = Pending
    /\ requests = 0
    /\ sleeps = <<>>
    /\ lastOutcome = NoOutcome
    /\ lastExit = [held |-> "none", closed |-> FALSE]
    /\ RlInit(IF rate_limiter THEN 1..MaxCapacity ELSE {1})

NextApi ==
    \/ ApiEnter
    \/ ApiExit
    \/ ApiCall
    \/ ApiRequest
    \/ ApiWake
    \/ ApiHealth
    \/ ApiLimiterEnter
    \/ ApiLimiterWake
    \/ ApiTick

SpecApi == InitApi /\ [][NextApi]_vars

InitLimiter == PollQuiet /\ ApiQuiet /\ RlInit(1..MaxCapacity)

NextLimiter ==
    \/ LimiterCall
    \/ LimiterEnter
    \/ LimiterWake
    \/ LimiterTick

SpecLimiter == InitLimiter /\ [][NextLimiter]_vars

\* asyncio runs every task that is ready, and time passes
FairSpecLimiter ==
    /\ SpecLimiter
    /\ WF_vars(LimiterTick)
    /\ \A t \in Tasks : WF_vars(UNCHANGED <<pollVars, apiVars, extVars>> /\ RlEnter(t))
    /\ \A t \in Tasks : WF_vars(UNCHANGED <<pollVars, apiVars, extVars>> /\ RlWake(t))


(***************************************************************************)
(* The database operations called directly                                 *)
(***************************************************************************)
DbMatchIds == {<<t, 1>> : t \in 1..MaxDbMatches}

Key(r) == <<r.player_id, r.character, r.match_id>>

Keys(c) == {Key(r) : r \in c}

OrderOf(c, order) == SelectSeq(order, LAMBDA k : k \in Keys(c))

DbOp(o, p, existed, deleted, old) ==
    [op |-> o, player_id |-> p, existed |-> existed, deleted |-> deleted, old |-> old]

DbFrame == UNCHANGED <<trackerVars, apiVars, rlVars, cmdVars, adminVars, lbVars, restVars>>

\* save_match_to_cache(p, ch, m)
DbSave ==
    /\ DbFrame
    /\ \E p \in PlayerIds, ch \in Chars, m \in DbMatchIds :
          /\ <<p, ch, m>> \in Keys(cache) \/ Cardinality(cache) < MaxRows
          /\ cache' = save_match_to_cache(cache, p, ch, m, now)
          /\ createdOrder' = IF <<p, ch, m>> \in Keys(cache) THEN createdOrder
                             ELSE Append(createdOrder, <<p, ch, m>>)
          /\ dbOp' = DbOp("save", p, <<p, ch, m>> \in Keys(cache), 0, "")
    /\ UNCHANGED <<players, now>>

\* cleanup_cache(p, ch, n)
DbCleanupOf(p, ch, n) ==
    /\ DbFrame
    /\ \E c2 \in cleanup_cache(cache, p, ch, n) :
          /\ cache' = c2
          /\ createdOrder' = OrderOf(c2, createdOrder)
          /\ dbOp' = DbOp("cleanup", p, PairRows(cache, p, ch) # {},
                          Cardinality(cache) - Cardinality(c2), "")
    /\ UNCHANGED <<players, now>>

DbCleanup == \E p \in PlayerIds, ch \in Chars, n \in 0..MaxKeep : DbCleanupOf(p, ch, n)

\* add_player(p, name)
DbAddOf(p, name) ==
    /\ DbFrame
    /\ players' = add_player(players, p, name)
    /\ dbOp' = DbOp("add", p, p \in DOMAIN players, 0,
                    IF p \in DOMAIN players THEN players[p] ELSE "")
    /\ UNCHANGED <<cache, now, createdOrder>>

DbAdd == \E p \in PlayerIds, name \in Names : DbAddOf(p, name)

\* remove_player(p)
DbRemoveOf(p) ==
    /\ DbFrame
    /\ cache' = remove_player_cache(cache, p)
    /\ players' = remove_player_row(players, p)
    /\ createdOrder' = OrderOf(cache', createdOrder)
    /\ dbOp' = DbOp("remove", p, p \in DOMAIN players,
                    Cardinality(cache) - Cardinality(cache'), "")
    /\ UNCHANGED now

DbRemove == \E p \in PlayerIds : DbRemoveOf(p)

\* CURRENT_TIMESTAMP moves on by one second
DbTick ==
    /\ DbFrame
    /\ now < MaxTime
    /\ now' = now + 1
    /\ UNCHANGED <<players, cache, dbOp, createdOrder>>

InitDb ==
    /\ InitPoll("scan", {<<>>}, {<<MaxPlayers + 1, "SO", <<1, 1>>>>})
    /\ ApiQuiet
    /\ RlInit({1})

NextDb ==
    \/ DbSave
    \/ DbCleanup
    \/ DbAdd
    \/ DbRemove
    \/ DbTick

SpecDb == InitDb /\ [][NextDb]_vars

(***************************************************************************)
(* commands/player_management.py                                           *)
(***************************************************************************)
\* RetryPolicy(): the policy of a client constructed without one
DefaultRetry ==
    [attempts |-> 3, backoff_base |-> 500, backoff_factor |-> 2,
     retry_statuses |-> {500, 502, 503, 504}]

\* _request run to its end by a client without rate limiter: attempt n is
\* over, outs are the answers of the requests still to come
RECURSIVE run_request(_, _, _, _)
run_request(policy, n, outs, err) ==
    IF ~(n < policy.attempts)
    THEN IF err # "" THEN ApiRaise(err, 0) ELSE ApiReturn("None")
    ELSE LET st == request_step(policy, n + 1, Head(outs), err)
         IN  IF st.next = "sleep" THEN run_request(policy, n + 1, Tail(outs), st.err)
             ELSE IF st.next = "return" THEN ApiReturn("json")
             ELSE ApiRaise(st.exc, st.status)

\* What api.get_player can end with, over all answers of the upstream to the
\* requests of one call
LookupResults ==
    {run_request(DefaultRetry, 0, outs, "") : outs \in [1..DefaultRetry.attempts -> ApiOutcomes]}

\* The JSON value of a profile: an object, or a value that is falsy in Python
ProfileValues == {"profile", "empty"}

\* dict[name] on a dict kept as a sequence of <<key, value>>
DictGet(d, k) == d[CHOOSE i \in 1..Len(d) : d[i][1] = k][2]

\* A faulty membership test that finds no name in the dict.
DictKeysNone(d) == {}

\* "name in players": the keys of the dict
DictKeys(d) == {d[i][1] : i \in 1..Len(d)}

\* "except (ApiError, ValueError)" of the add_player command
CmdCatches(e) == IsAny(e, {"ApiError", "ValueError"})

CmdFrame == UNCHANGED <<trackerVars, apiVars, rlVars, dbVars, adminVars, lbVars, restVars, now>>

\* /add_player is invoked: interaction.response.defer(), then the lookup starts
CmdAddStart ==
    /\ CmdFrame
    /\ cmdpc \in {"idle", "done", "raised"}
    /\ \E p \in PlayerIds, name \in Names :
          cmd' = [op |-> "add", player_id |-> p, name |-> name]
    /\ cmdpc' = "lookup"
    /\ reply' = ""
    /\ cmdExc' = ""
    /\ lookup' = Pending
    /\ tablesBefore' = <<players, cache>>
    /\ UNCHANGED <<players, cache>>

\* /add_player: api.get_player ends; the player is stored or the user is told
CmdAddLookup ==
    /\ CmdFrame
    /\ cmdpc = "lookup"
    /\ \E res \in LookupResults, v \in ProfileValues :
          LET got == IF res.tag = "return" THEN ApiReturn(v) ELSE res
          IN  /\ lookup' = got
              /\ IF got.tag = "raise"
                 THEN IF CmdCatches(got.exc)
                      THEN /\ cmdpc' = "done"
                           /\ reply' = "errors.generic"
                           /\ cmdExc' = ""
                           /\ UNCHANGED players
                      ELSE /\ cmdpc' = "raised"
                           /\ reply' = ""
                           /\ cmdExc' = got.exc
                           /\ UNCHANGED players
                 ELSE IF got.value = "empty"
                      THEN /\ cmdpc' = "done"
                           /\ reply' = "players.add.not_found_by_id"
                           /\ cmdExc' = ""
                           /\ UNCHANGED players
                      ELSE /\ cmdpc' = "done"
                           /\ players' = add_player(players, cmd.player_id, cmd.name)
                           /\ reply' = "players.add.added"
                           /\ cmdExc' = ""
    /\ UNCHANGED <<cache, cmd, tablesBefore>>

\* /remove_player name: the handler up to its reply.  players[name] is
\* str(id), which both databases compare with the integer column by value.
CmdRemove ==
    /\ CmdFrame
    /\ cmdpc \in {"idle", "done", "raised"}
    /\ \E name \in Names, d \in get_all_players(players) :
          /\ cmd' = [op |-> "remove", player_id |-> 0, name |-> name]
          /\ IF name \notin DictKeys(d)
             THEN /\ reply' = "players.remove.not_found"
                  /\ UNCHANGED <<players, cache>>
             ELSE /\ players' = remove_player_row(players, DictGet(d, name))
                  /\ cache' = remove_player_cache(cache, DictGet(d, name))
                  /\ reply' = "players.remove.removed"
    /\ cmdpc' = "done"
    /\ cmdExc' = ""
    /\ lookup' = Pending
    /\ tablesBefore' = <<players, cache>>

\* The tables the commands start from: tracked players with distinct names,
\* some of them with a cached match
UniqueNames(tbl) == \A p, q \in DOMAIN tbl : p # q => tbl[p] # tbl[q]

\* The tracker between two poll cycles
TrackerQuiet ==
    /\ world = "scan"
    /\ pc = "idle"
    /\ plist = <<>>
    /\ idx = 0
    /\ ratings = <<>>
    /\ cidx = 0
    /\ player_cache = EmptyCache
    /\ sendq = <<>>
    /\ new_count = 0
    /\ raisedExc = ""
    /\ probe = <<MaxPlayers + 1, "SO", <<1, 1>>>>
    /\ announced = 0
    /\ seenNow = FALSE
    /\ seenPrev = FALSE
    /\ dupEver = FALSE
    /\ undelivered = FALSE
    /\ scanState = "none"
    /\ scanHist = <<>>
    /\ scanCache = {}
    /\ scanSends = <<>>

InitCmd ==
    /\ players \in {tbl \in PlayerTables : UniqueNames(tbl)}
    /\ cache \in SUBSET {Row(p, "SO", <<1, 1>>, 0) : p \in DOMAIN players}
    /\ now = 0
    /\ TrackerQuiet
    /\ ExtQuiet
    /\ ApiQuiet
    /\ RlInit({1})

NextCmd ==
    \/ CmdAddStart
    \/ CmdAddLookup
    \/ CmdRemove

SpecCmd == InitCmd /\ [][NextCmd]_vars

(***************************************************************************)
(* The player commands while a poll cycle is in progress                   *)
(***************************************************************************)
\* One tracked player; the commands arrive between the steps of the cycle,
\* that is at its awaits
InitMix ==
    /\ InitPoll("fleet", {[p \in {1} |-> "A"]}, {<<1, "SO", <<1, 1>>>>})
    /\ ApiQuiet
    /\ RlInit({1})

\* The frame of a command that arrives during the cycle; its reply is not
\* kept here
MixFrame == UNCHANGED <<trackerVars, apiVars, rlVars, extVars, now>>

\* /add_player whose lookup found the profile: the player is stored
MixAddPlayer ==
    /\ MixFrame
    /\ \E res \in LookupResults : res.tag = "return"
    /\ \E p \in PlayerIds, name \in Names : players' = add_player(players, p, name)
    /\ UNCHANGED cache

\* /remove_player of a tracked name: the row and the cache rows of its id
\* are deleted
MixRemovePlayer ==
    /\ MixFrame
    /\ \E name \in Names, d \in get_all_players(players) :
          /\ name \in DictKeys(d)
          /\ players' = remove_player_row(players, DictGet(d, name))
          /\ cache' = remove_player_cache(cache, DictGet(d, name))

NextMix ==
    \/ PollStart
    \/ FetchPlayer
    \/ FetchHistory
    \/ Send
    \/ MixAddPlayer
    \/ MixRemovePlayer

SpecMix == InitMix /\ [][NextMix]_vars

(***************************************************************************)
(* commands/base_command.py, commands/admin.py, commands/misc.py           *)
(***************************************************************************)
MaxUsers == 3

Users == 1..MaxUsers

\* The commands that carry @is_owner()
OwnerGated == {"reload", "shutdown", "logs", "eval", "evalpy", "hugo", "sync_guild"}

\* The commands of the same cogs that carry no check
Ungated == {"ping", "health"}

AdminCommands == OwnerGated \cup Ungated

\* What the body of a command does when it runs to its end
Effect(c) ==
    CASE c = "reload"     -> "reload_extension"
      [] c = "shutdown"   -> "bot.close"
      [] c = "logs"       -> "read_log"
      [] c = "eval"       -> "exec"
      [] c = "evalpy"     -> "exec"
      [] c = "hugo"       -> "hugo_message"
      [] c = "sync_guild" -> "tree.sync"
      [] c = "ping"       -> "pong"
      [] c = "health"     -> "api.health"

Msg(text, eph) == [text |-> text, ephemeral |-> eph]

\* A faulty predicate that lets every user through.
predicate_open(user, own) == TRUE

\* is_owner.predicate: its return value
predicate(user, own) == ~(user # own)

AdminFrame == UNCHANGED <<pollVars, apiVars, rlVars, dbVars, cmdVars, lbVars, restVars, owner>>

\* A user invokes a command: the checks attached to it, if any, run first
AdminInvoke ==
    /\ AdminFrame
    /\ admpc \in {"idle", "done", "rejected"}
    /\ ~botClosed
    /\ \E u \in Users, c \in AdminCommands :
          /\ invoker' = u
          /\ admcmd' = c
          /\ admpc' = IF c \in OwnerGated THEN "check" ELSE "body"
    /\ admMsgs' = <<>>
    /\ admEffects' = {}
    /\ UNCHANGED botClosed

\* is_owner.predicate runs; on False the command is not called
AdminCheck ==
    /\ AdminFrame
    /\ admpc = "check"
    /\ IF predicate(invoker, owner)
       THEN /\ admpc' = "body"
            /\ UNCHANGED admMsgs
       ELSE /\ admpc' = "rejected"
            /\ admMsgs' = Append(admMsgs, Msg("Owner-only command.", TRUE))
    /\ UNCHANGED <<invoker, admcmd, admEffects, botClosed>>

\* The body of the command runs: it does its work, or fails on the way
\* (missing configuration, an error of the work), and answers
AdminBody ==
    /\ AdminFrame
    /\ admpc = "body"
    /\ \E worked \in BOOLEAN :
          /\ admEffects' = IF worked THEN {Effect(admcmd)} ELSE {}
          /\ botClosed' = (worked /\ admcmd = "shutdown")
    /\ admMsgs' = Append(admMsgs, Msg(admcmd, admcmd \in {"reload", "shutdown", "logs", "health"}))
    /\ admpc' = "done"
    /\ UNCHANGED <<invoker, admcmd>>

InitAdmin ==
    /\ players = <<>>
    /\ cache = {}
    /\ now = 0
    /\ TrackerQuiet
    /\ DbQuiet
    /\ CmdQuiet
    /\ owner \in Users
    /\ AdminIdle
    /\ LbQuiet
    /\ RestQuiet
    /\ ApiQuiet
    /\ RlInit({1})

NextAdmin ==
    \/ AdminInvoke
    \/ AdminCheck
    \/ AdminBody

SpecAdmin == InitAdmin /\ [][NextAdmin]_vars

(***************************************************************************)
(* commands/leaderboard.py                                                 *)
(***************************************************************************)
MaxEntries == 23

\* The page sizes a caller passes: the default and a smaller one
PageSizes == {PAGE_SIZE, 3}

\* One entry of the ranking: its name stands for the whole entry
Entry(k, char_long) == [name |-> k, char_long |-> char_long]

Leaderboards ==
    {[k \in 1..n |-> Entry(k, cl)] : n \in 0..MaxEntries, cl \in {"", "Sol Badguy"}}

\* One line of a page: "**#idx** name (char_long) - rating", the tag in
\* brackets only without a character filter
Line(i, entry, character) ==
    [idx |-> i, name |-> entry.name,
     tag |-> IF character = "" /\ entry.char_long # "" THEN entry.char_long ELSE ""]

Footer(num, total) == [page_num |-> num, page_total |-> total]

\* The single page built for an empty ranking
Placeholder ==
    [title |-> "Classement", description |-> "Aucune donnee disponible.",
     lines |-> <<>>, footer |-> Footer(0, 0)]

\* A faulty total that counts full pages only.
page_total_floor(total, page_size) == total \div page_size

page_total(total, page_size) == (total + page_size - 1) \div page_size

\* data[start : start + page_size], as the numbered lines of a page
Slice(data, character, page_size, start) ==
    [j \in 1..(IF Len(data) - start < page_size THEN Len(data) - start ELSE page_size) |->
        Line(start + j, data[start + j], character)]

\* The pages for start, start + page_size, ... below len(data)
RECURSIVE pages_from(_, _, _, _)
pages_from(data, character, page_size, start) ==
    IF start >= Len(data) THEN <<>>
    ELSE <<[title |-> IF character = "" THEN "Classement Global" ELSE character,
            description |-> "lines",
            lines |-> Slice(data, character, page_size, start),
            footer |-> Footer((start \div page_size) + 1, page_total(Len(data), page_size))]>>
         \o pages_from(data, character, page_size, start + page_size)

build_leaderboard_pages(data, character, page_size) ==
    IF data = <<>> THEN <<Placeholder>>
    ELSE pages_from(data, character, page_size, 0)

LbFrame == UNCHANGED <<pollVars, apiVars, rlVars, dbVars, cmdVars, adminVars, restVars>>

\* _build_leaderboard_pages(data, character, page_size) returns
LbBuild ==
    /\ LbFrame
    /\ lbpc = "idle"
    /\ lbPages' = build_leaderboard_pages(lbData, lbCharacter, lbPageSize)
    /\ lbpc' = "built"
    /\ UNCHANGED <<lbData, lbCharacter, lbPageSize>>

InitPages ==
    /\ players = <<>>
    /\ cache = {}
    /\ now = 0
    /\ TrackerQuiet
    /\ DbQuiet
    /\ CmdQuiet
    /\ AdminQuiet
    /\ lbData \in Leaderboards
    /\ lbCharacter \in {"", "SO"}
    /\ lbPageSize \in PageSizes
    /\ lbPages = <<>>
    /\ lbpc = "idle"
    /\ RestQuiet
    /\ ApiQuiet
    /\ RlInit({1})

NextPages == LbBuild

SpecPages == InitPages /\ [][NextPages]_vars

(***************************************************************************)
(* commands/leaderboard.py: LeaderboardView                                *)
(***************************************************************************)
\* min(self.index + 1, len(self.pages) - 1)
next_index(index, n) == Min(index + 1, n - 1)

\* max(self.index - 1, 0)
previous_index(index) == Max(index - 1, 0)

\* _update_button_states: the two disabled flags for an index
prev_disabled(index) == index <= 0

\* A faulty flag that leaves the next button enabled on the last page.
next_disabled_past(index, n) == index > n - 1

next_disabled(index, n) == index >= n - 1

ViewFrame == UNCHANGED <<pollVars, apiVars, rlVars, dbVars, cmdVars, adminVars, lbVars, fetchVars, fnVars, botVars, seriesVars>>

\* top: LeaderboardView(pages, user) is constructed and sent with pages[0]
ViewOpen ==
    /\ ViewFrame
    /\ lbpc = "built"
    /\ vwpc = "none"
    /\ vwIndex' = 0
    /\ vwPrevDisabled' = prev_disabled(0)
    /\ vwNextDisabled' = next_disabled(0, Len(lbPages))
    /\ vwShown' = lbPages[1]
    /\ vwpc' = "open"

\* The click of a button arrives: index, buttons, then the message is edited
ViewPrevious ==
    /\ ViewFrame
    /\ vwpc = "open"
    /\ vwIndex' = previous_index(vwIndex)
    /\ vwPrevDisabled' = prev_disabled(vwIndex')
    /\ vwNextDisabled' = next_disabled(vwIndex', Len(lbPages))
    /\ vwShown' = lbPages[vwIndex' + 1]
    /\ UNCHANGED vwpc

ViewNext ==
    /\ ViewFrame
    /\ vwpc = "open"
    /\ vwIndex' = next_index(vwIndex, Len(lbPages))
    /\ vwPrevDisabled' = prev_disabled(vwIndex')
    /\ vwNextDisabled' = next_disabled(vwIndex', Len(lbPages))
    /\ vwShown' = lbPages[vwIndex' + 1]
    /\ UNCHANGED vwpc

\* Rankings of 0, 1, 10, 11 and MaxEntries entries: one, two and three pages
ViewLeaderboards == {d \in Leaderboards : Len(d) \in {0, 1, 10, 11, MaxEntries}}

InitView ==
    /\ players = <<>>
    /\ cache = {}
    /\ now = 0
    /\ TrackerQuiet
    /\ DbQuiet
    /\ CmdQuiet
    /\ AdminQuiet
    /\ lbData \in ViewLeaderboards
    /\ lbCharacter \in {"", "SO"}
    /\ lbPageSize \in PageSizes
    /\ lbPages = <<>>
    /\ lbpc = "idle"
    /\ RestQuiet
    /\ ApiQuiet
    /\ RlInit({1})

NextView ==
    \/ LbBuild
    \/ ViewOpen
    \/ ViewPrevious
    \/ ViewNext

SpecView == InitView /\ [][NextView]_vars

(***************************************************************************)
(* commands/leaderboard.py: _fetch_leaderboard                             *)
(***************************************************************************)
JScalar(t) == [type |-> "scalar", truthy |-> t, items |-> <<>>, fields |-> <<>>]

JList(items) == [type |-> "list", truthy |-> items # <<>>, items |-> items, fields |-> <<>>]

JDict(fields) == [type |-> "dict", truthy |-> fields # <<>>, items |-> <<>>, fields |-> fields]

\* The values of the members of an answered object
JMembers == {JNull, JScalar(TRUE), JList(<<>>), JList(<<1>>), JList(<<2, 3>>)}

JKeys == {"ranks", "data", "total"}

JDicts ==
    {JDict(<<>>)}
      \cup {JDict(<<<<k, v>>>>) : k \in JKeys, v \in JMembers}
      \cup {JDict(<<<<ks[1], v1>>, <<ks[2], v2>>>>) :
              ks \in {x \in JKeys \X JKeys : x[1] # x[2]}, v1 \in JMembers, v2 \in JMembers}

Payloads == {JNull, JScalar(TRUE), JScalar(FALSE)} \cup (JMembers \ {JNull}) \cup JDicts

\* payload.get(key)
JGet(fields, key) ==
    IF \E i \in 1..Len(fields) : fields[i][1] = key
    THEN fields[CHOOSE i \in 1..Len(fields) : fields[i][1] = key][2]
    ELSE JNull

\* "for val in payload.values(): if isinstance(val, list): return val"
RECURSIVE first_list(_)
first_list(fields) ==
    IF fields = <<>> THEN <<>>
    ELSE IF Head(fields)[2].type = "list" THEN Head(fields)[2].items
    ELSE first_list(Tail(fields))

\* _fetch_leaderboard after the API call: the list taken from the payload
extract(payload) ==
    IF ~payload.truthy THEN <<>>
    ELSE IF payload.type = "list" THEN payload.items
    ELSE IF payload.type = "dict"
         THEN IF JGet(payload.fields, "ranks").type = "list"
              THEN JGet(payload.fields, "ranks").items
              ELSE first_list(payload.fields)
    ELSE <<>>

FetchFrame == UNCHANGED <<pollVars, apiVars, rlVars, dbVars, cmdVars, adminVars, lbVars, viewVars, fnVars, botVars, seriesVars>>

\* _fetch_leaderboard(character) runs to its end
FetchLeaderboard ==
    /\ FetchFrame
    /\ ftpc = "idle"
    /\ \E outs \in [1..DefaultRetry.attempts -> ApiOutcomes] :
          LET res == run_request(DefaultRetry, 0, outs, "")
          IN  /\ ftLookup' = res
              /\ IF res.tag = "raise"
                 THEN /\ ftPayload' = JNull
                      /\ ftResult' = <<>>
                      /\ ftpc' = IF IsInstance(res.exc, "ApiError") THEN "returned" ELSE "raised"
                 ELSE /\ \E payload \in Payloads :
                            /\ ftPayload' = payload
                            /\ ftResult' = extract(payload)
                      /\ ftpc' = "returned"
    /\ UNCHANGED ftCharacter

InitFetch ==
    /\ players = <<>>
    /\ cache = {}
    /\ now = 0
    /\ TrackerQuiet
    /\ DbQuiet
    /\ CmdQuiet
    /\ AdminQuiet
    /\ LbQuiet
    /\ ViewQuiet
    /\ FnQuiet
    /\ BotQuiet
    /\ SeriesQuiet
    /\ ftCharacter \in {"", "SO"}
    /\ ftLookup = Pending
    /\ ftPayload = JNull
    /\ ftResult = <<>>
    /\ ftpc = "idle"
    /\ ApiQuiet
    /\ RlInit({1})

NextFetch == FetchLeaderboard

SpecFetch == InitFetch /\ [][NextFetch]_vars

(***************************************************************************)
(* utils/helpers.py                                                        *)
(***************************************************************************)
EloSpread == 1         \* ratings up to this far from each rank threshold
EloRun == 7            \* ratings up to this far above each sample of str_elo

\* _RANKS, in the order of the dict
RANKS ==
    <<[rank |-> "Vanquisher", threshold |-> 45000],
      [rank |-> "Diamond 3", threshold |-> 40800],
      [rank |-> "Diamond 2", threshold |-> 36600],
      [rank |-> "Diamond 1", threshold |-> 32400],
      [rank |-> "Platinum 3", threshold |-> 28400],
      [rank |-> "Platinum 2", threshold |-> 24400],
      [rank |-> "Platinum 1", threshold |-> 20400],
      [rank |-> "Gold 3", threshold |-> 18000],
      [rank |-> "Gold 2", threshold |-> 15600],
      [rank |-> "Gold 1", threshold |-> 13200],
      [rank |-> "Silver 3", threshold |-> 11000],
      [rank |-> "Silver 2", threshold |-> 8800],
      [rank |-> "Silver 1", threshold |-> 6600],
      [rank |-> "Bronze 3", threshold |-> 5400],
      [rank |-> "Bronze 2", threshold |-> 4200],
      [rank |-> "Bronze 1", threshold |-> 3000],
      [rank |-> "Iron 3", threshold |-> 2000],
      [rank |-> "Iron 2", threshold |-> 1000],
      [rank |-> "Iron 1", threshold |-> 1]>>

\* A faulty comparison that leaves the threshold itself to the rank below.
reaches_strict(elo, threshold) == elo > threshold

\* "if elo >= threshold"
reaches(elo, threshold) == elo >= threshold

RECURSIVE rank_from(_, _)
rank_from(elo, table) ==
    IF table = <<>> THEN "Unranked"
    ELSE IF reaches(elo, Head(table).threshold) THEN Head(table).rank
    ELSE rank_from(elo, Tail(table))

calculate_rank(elo) == rank_from(elo, RANKS)

\* str(n) of an int, as the sequence of its characters
DigitChars == <<"0", "1", "2", "3", "4", "5", "6", "7", "8", "9">>

RECURSIVE Digits(_)
Digits(n) ==
    IF n < 10 THEN <<DigitChars[n + 1]>>
    ELSE Digits(n \div 10) \o <<DigitChars[(n % 10) + 1]>>

Str(n) == IF n < 0 THEN <<"-">> \o Digits(0 - n) ELSE Digits(n)

\* A faulty test that takes every rating above 45000 for a DR rating.
is_dr_any_length(elo, string_elo) == elo > 45000

\* "if elo > 45000 and len(string_elo) == 8"
is_dr(elo, string_elo) == elo > 45000 /\ Len(string_elo) = 8

str_elo(elo) ==
    LET string_elo == Str(elo)
    IN  IF is_dr(elo, string_elo)
        THEN SubSeq(string_elo, 5, Len(string_elo)) \o <<" ", "D", "R">>
        ELSE string_elo \o <<" ", "R", "P">>

\* The ratings tried: around every threshold of the table, and runs around
\* the values where the representation or the rating system changes
Elos ==
    {RANKS[i].threshold + d : i \in 1..Len(RANKS), d \in (0 - EloSpread)..EloSpread}
      \cup {b + d : b \in {-1234567, -10000234, 1499, 45000, 9999998, 10000233, 10009998, 99999998},
                    d \in 0..EloRun}

HelperFrame == UNCHANGED <<pollVars, apiVars, rlVars, dbVars, cmdVars, adminVars, lbVars, viewVars, fetchVars, botVars, seriesVars>>

CalculateRank ==
    /\ HelperFrame
    /\ fnpc = "idle"
    /\ fnOut' = calculate_rank(fnIn)
    /\ fnpc' = "calculate_rank"
    /\ UNCHANGED fnIn

StrElo ==
    /\ HelperFrame
    /\ fnpc = "idle"
    /\ fnOut' = str_elo(fnIn)
    /\ fnpc' = "str_elo"
    /\ UNCHANGED fnIn

\* Everything but the function called is at rest
OthersQuiet ==
    /\ players = <<>>
    /\ cache = {}
    /\ now = 0
    /\ TrackerQuiet
    /\ DbQuiet
    /\ CmdQuiet
    /\ AdminQuiet
    /\ LbQuiet
    /\ ViewQuiet
    /\ FetchQuiet
    /\ BotQuiet
    /\ SeriesQuiet
    /\ ApiQuiet
    /\ RlInit({1})

InitHelpers ==
    /\ OthersQuiet
    /\ fnIn \in Elos
    /\ fnOut = 0
    /\ fnpc = "idle"

NextHelpers ==
    \/ CalculateRank
    \/ StrElo

SpecHelpers == InitHelpers /\ [][NextHelpers]_vars

(***************************************************************************)
(* i18n.py: _normalize_locale                                              *)
(***************************************************************************)
MaxLocaleLen == 4      \* raw locale strings of up to this many characters

\* A raw locale: None, or a string as the sequence of its characters
Raw(absent, chars) == [absent |-> absent, chars |-> chars]

LocaleChars == {"e", "N", "_", ".", " "}

LocaleExamples ==
    {<<"e", "n", "_", "U", "S", ".", "U", "T", "F", "-", "8">>,
     <<"f", "r", "_", "F", "R">>,
     <<"F", "R", "_", "f", "r">>,
     <<"e", "n">>,
     <<" ", "f", "r", "_", "F", "R", "\n">>}

RawLocales ==
    {Raw(TRUE, <<>>)}
      \cup {Raw(FALSE, cs) : cs \in SeqsUpTo(LocaleChars, MaxLocaleLen) \cup LocaleExamples}

UpperCase == <<"E", "N", "F", "R", "U", "S", "T">>

LowerCase == <<"e", "n", "f", "r", "u", "s", "t">>

\* str.lower() on one character
ToLower(c) ==
    IF \E i \in 1..Len(UpperCase) : UpperCase[i] = c
    THEN LowerCase[CHOOSE i \in 1..Len(UpperCase) : UpperCase[i] = c]
    ELSE c

\* A faulty lower-casing that keeps every character.
LowerKept(cs) == cs

\* str.lower()
Lower(cs) == [i \in 1..Len(cs) |-> ToLower(cs[i])]

\* raw.split(sep, 1)[0]
BeforeFirst(cs, sep) ==
    IF \E i \in 1..Len(cs) : cs[i] = sep
    THEN SubSeq(cs, 1, (CHOOSE i \in 1..Len(cs) : cs[i] = sep /\ \A j \in 1..(i - 1) : cs[j] # sep) - 1)
    ELSE cs

normalize_locale(raw) ==
    IF raw.absent \/ raw.chars = <<>> THEN <<"e", "n">>
    ELSE LET stripped == Strip(raw.chars)
         IN  IF stripped = <<>> THEN <<"e", "n">>
             ELSE BeforeFirst(Lower(BeforeFirst(stripped, ".")), "_")

NormalizeLocale ==
    /\ HelperFrame
    /\ fnpc = "idle"
    /\ fnOut' = normalize_locale(fnIn)
    /\ fnpc' = "_normalize_locale"
    /\ UNCHANGED fnIn

InitLocale ==
    /\ OthersQuiet
    /\ fnIn \in RawLocales
    /\ fnOut = <<>>
    /\ fnpc = "idle"

NextLocale == NormalizeLocale

SpecLocale == InitLocale /\ [][NextLocale]_vars

(***************************************************************************)
(* i18n.py: I18n.t                                                         *)
(***************************************************************************)
\* A template is the sequence of its parts: literal text and {placeholders}
Lit(text) == [kind |-> "lit", text |-> text]

Ph(name) == [kind |-> "ph", text |-> name]

\* The templates a catalog of one locale can store under a key: the empty
\* string, plain text, text with a placeholder
Templates(locale) == {<<>>, <<Lit(locale)>>, <<Lit(locale), Ph("name"), Lit("!")>>}

I18nKeys == {"greet", "bye"}

\* The flattened catalog of one locale file
Catalogs(locale) == UNION {[K -> Templates(locale)] : K \in SUBSET I18nKeys}

\* self._translations after load_all: the locale files found
Translations ==
    UNION {{[l \in L |-> cat[l]] : cat \in [L -> UNION {Catalogs(l) : l \in L}]} : L \in SUBSET {"fr", "en"}}

\* I18n.__init__: the default locale kept for a requested one
default_locales(translations, requested) ==
    IF requested \in DOMAIN translations THEN {requested}
    ELSE IF "en" \in DOMAIN translations THEN {"en"}
    ELSE IF DOMAIN translations # {} THEN DOMAIN translations
    ELSE {requested}

\* **fmt: no parameter, the parameter of the placeholder, another one
NoFmt == [n \in {} |-> ""]

Fmts == {NoFmt, [n \in {"name"} |-> "World"], [n \in {"other"} |-> "x"]}

\* dict.get: a found value, or None
Found(v) == [some |-> TRUE, val |-> v]

NotFound == [some |-> FALSE, val |-> <<>>]

Lookup(translations, lang, key) ==
    IF lang \in DOMAIN translations /\ key \in DOMAIN translations[lang]
    THEN Found(translations[lang][key])
    ELSE NotFound

\* Python's "a or b" on two looked-up values: a unless it is None or ""
PyOr(a, b) == IF a.some /\ a.val # <<>> THEN a ELSE b

\* val.format(**fmt); a KeyError leaves val as it is
Format(val, fmt) ==
    IF \A i \in 1..Len(val) : val[i].kind = "ph" => val[i].text \in DOMAIN fmt
    THEN [i \in 1..Len(val) |-> IF val[i].kind = "ph" THEN Lit(fmt[val[i].text]) ELSE val[i]]
    ELSE val

Bracketed(key) == <<Lit("["), Lit(key), Lit("]")>>

translate(self, key, locale, fmt) ==
    LET lang == IF locale # "" THEN locale ELSE self.default_locale
        val == PyOr(Lookup(self.translations, lang, key),
                    Lookup(self.translations, self.default_locale, key))
    IN  IF ~val.some THEN Bracketed(key)
        ELSE IF fmt # NoFmt THEN Format(val.val, fmt)
        ELSE val.val

I18nCalls ==
    {[self |-> [translations |-> tr, default_locale |-> d], key |-> k, locale |-> l, fmt |-> f] :
        tr \in Translations, d \in {"fr", "en"}, k \in {"greet"}, l \in {"", "fr", "en", "de"},
        f \in Fmts}

Translate ==
    /\ HelperFrame
    /\ fnpc = "idle"
    /\ fnOut' = translate(fnIn.self, fnIn.key, fnIn.locale, fnIn.fmt)
    /\ fnpc' = "t"
    /\ UNCHANGED fnIn

InitI18n ==
    /\ OthersQuiet
    /\ fnIn \in {c \in I18nCalls :
                   \E requested \in {"fr", "en", "de"} :
                      c.self.default_locale \in default_locales(c.self.translations, requested)}
    /\ fnOut = <<>>
    /\ fnpc = "idle"

NextI18n == Translate

SpecI18n == InitI18n /\ [][NextI18n]_vars

(***************************************************************************)
(* i18n.py: an I18n instance over its life                                 *)
(*   fnIn  : the locales directory as it is now, and the last argument     *)
(*   fnOut : the instance (self._translations, self.default_locale)        *)
(*   fnpc  : the last method called, "idle" before construction            *)
(* Locale codes are sequences of characters, as _normalize_locale gives    *)
(***************************************************************************)
\* file.stem of the *.yml files a locales directory can hold
LocaleStems == {<<"f", "r">>, <<"e", "n">>, <<"d", "e">>}

\* A directory that does not exist
NoLocalesDir == [exists |-> FALSE, files |-> [l \in LocaleStems |-> "absent"]]

\* The locales directory: each file is absent, loads, or raises OSError /
\* yaml.YAMLError when it is read
LocalesDirs ==
    {NoLocalesDir} \cup [exists : {TRUE}, files : [LocaleStems -> {"absent", "ok", "unreadable"}]]

\* The locale arguments of __init__ and set_default_locale
LocaleArgs ==
    {Raw(FALSE, <<"f", "r">>), Raw(FALSE, <<"e", "n", "_", "U", "S">>),
     Raw(FALSE, <<"d", "e">>), Raw(FALSE, <<>>)}

\* The flattened document of one locale file
Flat(locale) == [k \in {"greet"} |-> <<Lit(locale)>>]

\* I18n.load_all: self._translations after clear() and the loop over the files
load_all(dir) ==
    IF ~dir.exists THEN [l \in {} |-> Flat(l)]
    ELSE [l \in {f \in LocaleStems : dir.files[f] = "ok"} |-> Flat(l)]

\* I18n.__init__ after load_all: the default locale kept
fallback_locales(translations, default_locale) ==
    IF default_locale \in DOMAIN translations THEN {default_locale}
    ELSE IF <<"e", "n">> \in DOMAIN translations THEN {<<"e", "n">>}
    ELSE IF DOMAIN translations # {} THEN DOMAIN translations
    ELSE {default_locale}

\* I18n.set_default_locale: self.default_locale after the call
set_default_locale(self, locale) ==
    LET norm == normalize_locale(locale)
    IN  IF norm \in DOMAIN self.translations THEN norm ELSE self.default_locale

I18nNew ==
    /\ HelperFrame
    /\ fnpc = "idle"
    /\ \E default_locale \in LocaleArgs :
          LET loaded == load_all(fnIn.dir)
          IN  /\ fnIn' = [fnIn EXCEPT !.locale = default_locale]
              /\ \E d \in fallback_locales(loaded, normalize_locale(default_locale)) :
                    fnOut' = [translations |-> loaded, default_locale |-> d]
    /\ fnpc' = "__init__"

I18nLoadAll ==
    /\ HelperFrame
    /\ fnpc # "idle"
    /\ fnOut' = [fnOut EXCEPT !.translations = load_all(fnIn.dir)]
    /\ fnpc' = "load_all"
    /\ UNCHANGED fnIn

I18nSetDefaultLocale ==
    /\ HelperFrame
    /\ fnpc # "idle"
    /\ \E locale \in LocaleArgs :
          /\ fnIn' = [fnIn EXCEPT !.locale = locale]
          /\ fnOut' = [fnOut EXCEPT !.default_locale = set_default_locale(fnOut, locale)]
    /\ fnpc' = "set_default_locale"

\* The files of the locales directory are edited, added or removed
LocaleFilesChange ==
    /\ HelperFrame
    /\ \E dir \in LocalesDirs :
          /\ dir # fnIn.dir
          /\ fnIn' = [fnIn EXCEPT !.dir = dir]
    /\ UNCHANGED <<fnOut, fnpc>>

InitInstance ==
    /\ OthersQuiet
    /\ fnIn \in [dir : LocalesDirs, locale : {Raw(TRUE, <<>>)}]
    /\ fnOut = [translations |-> [l \in {} |-> Flat(l)], default_locale |-> <<>>]
    /\ fnpc = "idle"

NextInstance == I18nNew \/ I18nLoadAll \/ I18nSetDefaultLocale \/ LocaleFilesChange

SpecInstance == InitInstance /\ [][NextInstance]_vars

(***************************************************************************)
(* bot.py: GGSTBot.on_ready and the poll_matches loop                      *)
(***************************************************************************)
MaxReady == 3          \* ready events dispatched to on_ready
MaxCycles == 3         \* invocations of poll_matches

\* What one invocation of poll_matches has done so far: what get_channel
\* gave it, its calls of get_all_players, its upstream requests, its sends,
\* and the two tables as they were when it began
Invocation(tables) ==
    [resolved |-> "unknown", reads |-> 0, requests |-> 0, sends |-> 0, before |-> tables]

\* One task of the tasks.loop object: where it stands, the players the
\* running invocation has still to check, and that invocation
Loop(p, left, inv) == [pc |-> p, left |-> left, inv |-> inv]

\* poll_matches.is_running(): a task was launched and has not completed
is_running_never(loops) == FALSE

is_running(loops) == \E i \in 1..Len(loops) : loops[i].pc # "done"

\* poll_matches.start(): launches the task, whose first iteration is due at
\* once; it raises RuntimeError, and launches nothing, over a running task
start(loops) ==
    IF \E i \in 1..Len(loops) : loops[i].pc # "done"
    THEN loops
    ELSE Append(loops, Loop("due", <<>>, Invocation(<<>>)))

\* poll_matches: "if channel is None"
channel_is_none_never(channel) == FALSE

channel_is_none(channel) == ~channel

BotFrame == UNCHANGED <<players, now, trackerVars, apiVars, rlVars, dbVars, cmdVars, adminVars, lbVars, viewVars, fetchVars, fnVars, seriesVars>>

\* The connection became ready and on_ready ran: it returns when the channel
\* does not resolve, and starts the loop unless it is running
BotOnReady ==
    /\ BotFrame
    /\ botEvents < MaxReady
    /\ botEvents' = botEvents + 1
    /\ botReady' = TRUE
    /\ IF ~botChannel
       THEN UNCHANGED <<botLoops, botStartCalls, botSkipped>>
       ELSE IF ~is_running(botLoops)
            THEN /\ botStartCalls' = botStartCalls + 1
                 /\ botLoops' = start(botLoops)
                 /\ UNCHANGED botSkipped
            ELSE /\ botSkipped' = botSkipped + 1
                 /\ UNCHANGED <<botLoops, botStartCalls>>
    /\ UNCHANGED <<cache, botChannel, botBegun, botEnded>>

\* The connection is lost: wait_until_ready blocks until the next ready event
BotDisconnect ==
    /\ BotFrame
    /\ botReady
    /\ botReady' = FALSE
    /\ UNCHANGED <<cache, botChannel, botLoops, botStartCalls, botSkipped, botEvents, botBegun, botEnded>>

\* The bot joins or leaves the server of the channel
BotChannelChange ==
    /\ BotFrame
    /\ botChannel' = ~botChannel
    /\ UNCHANGED <<cache, botReady, botLoops, botStartCalls, botSkipped, botEvents, botBegun, botEnded>>

LoopAt(i, p, left, inv) == [botLoops EXCEPT ![i] = Loop(p, left, inv)]

\* The loop calls poll_matches, which awaits wait_until_ready
BotInvoke(i) ==
    /\ BotFrame
    /\ botLoops[i].pc = "due"
    /\ botBegun < MaxCycles
    /\ botLoops' = LoopAt(i, "wait_until_ready", <<>>, Invocation(<<players, cache>>))
    /\ botBegun' = botBegun + 1
    /\ UNCHANGED <<cache, botReady, botChannel, botStartCalls, botSkipped, botEvents, botEnded>>

\* wait_until_ready returned: poll_matches returns when the channel does not
\* resolve, else it reads the players and opens the session
BotWaitUntilReady(i) ==
    /\ BotFrame
    /\ botLoops[i].pc = "wait_until_ready"
    /\ botReady
    /\ LET inv == [botLoops[i].inv EXCEPT !.resolved = IF botChannel THEN "yes" ELSE "no"]
       IN  IF channel_is_none(botChannel)
           THEN /\ botLoops' = LoopAt(i, "sleep", <<>>, inv)
                /\ botEnded' = botEnded + 1
           ELSE /\ \E d \in get_all_players(players) :
                      botLoops' = LoopAt(i, "players", d, [inv EXCEPT !.reads = @ + 1])
                /\ UNCHANGED botEnded
    /\ UNCHANGED <<cache, botReady, botChannel, botStartCalls, botSkipped, botEvents, botBegun>>

\* check_player of the next player ran: it asks upstream for the profile, and
\* either ends there (nothing new, or an Exception that poll_matches caught),
\* or asks for a history, announces a match new in this cycle, saves it and
\* cleans the cache
BotCheckPlayer(i) ==
    /\ BotFrame
    /\ botLoops[i].pc = "players"
    /\ botLoops[i].left # <<>>
    /\ LET player_id == Head(botLoops[i].left)[2]
           inv == botLoops[i].inv
       IN  \/ /\ botLoops' = LoopAt(i, "players", Tail(botLoops[i].left),
                                    [inv EXCEPT !.requests = @ + 1])
              /\ UNCHANGED cache
           \/ /\ botLoops' = LoopAt(i, "players", Tail(botLoops[i].left),
                                    [inv EXCEPT !.requests = @ + 2, !.sends = @ + 1])
              /\ cache' \in cleanup_cache(
                     save_match_to_cache(cache, player_id, "SO", <<botBegun, 1>>, now),
                     player_id, "SO", CACHE_SIZE)
    /\ UNCHANGED <<botReady, botChannel, botStartCalls, botSkipped, botEvents, botBegun, botEnded>>

\* The session is closed and poll_matches returns: the loop sleeps
BotCycleEnd(i) ==
    /\ BotFrame
    /\ botLoops[i].pc = "players"
    /\ botLoops[i].left = <<>>
    /\ botLoops' = LoopAt(i, "sleep", <<>>, botLoops[i].inv)
    /\ botEnded' = botEnded + 1
    /\ UNCHANGED <<cache, botReady, botChannel, botStartCalls, botSkipped, botEvents, botBegun>>

\* POLL_INTERVAL seconds after the iteration started, the next one is due
BotSleep(i) ==
    /\ BotFrame
    /\ botLoops[i].pc = "sleep"
    /\ botLoops' = LoopAt(i, "due", <<>>, botLoops[i].inv)
    /\ UNCHANGED <<cache, botReady, botChannel, botStartCalls, botSkipped, botEvents, botBegun, botEnded>>

InitBot ==
    /\ players \in PlayerTables
    /\ cache = {}
    /\ now = 0
    /\ TrackerQuiet
    /\ DbQuiet
    /\ CmdQuiet
    /\ AdminQuiet
    /\ LbQuiet
    /\ RestQuiet
    /\ ApiQuiet
    /\ RlInit({1})

NextBot ==
    \/ BotOnReady
    \/ BotDisconnect
    \/ BotChannelChange
    \/ \E i \in 1..Len(botLoops) : BotInvoke(i)
    \/ \E i \in 1..Len(botLoops) : BotWaitUntilReady(i)
    \/ \E i \in 1..Len(botLoops) : BotCheckPlayer(i)
    \/ \E i \in 1..Len(botLoops) : BotCycleEnd(i)
    \/ \E i \in 1..Len(botLoops) : BotSleep(i)

SpecBot == InitBot /\ [][NextBot]_vars

(***************************************************************************)
(* match_tracker.py: one character of one player over many poll cycles     *)
(***************************************************************************)
MaxSeries == 26        \* matches the upstream comes to list
MaxRetrySeries == 9    \* the same, in the runs that are followed to their end
MaxSendFailures == 1   \* sends that fail in one run

\* The matches are numbered in the order they were played; between two
\* cycles the upstream prepends none, a few, or more than one window holds
SeriesBursts == {0, MATCHES_TO_CHECK - 2, MATCHES_TO_CHECK + 1}

SeriesEntry(i) == [timestamp |-> i, opponent_id |-> 1]

\* The history the upstream answers with, most recent first
SeriesHistory(n) == [i \in 1..n |-> SeriesEntry(n + 1 - i)]

\* The match ids among the first MATCHES_TO_CHECK entries
Window(n) == {match_id(SeriesHistory(n)[i]) : i \in 1..Min(n, MATCHES_TO_CHECK)}

SeriesCached == get_player_cache(cache, 1)["SO"]

SeriesFrame == UNCHANGED <<players, trackerVars, apiVars, rlVars, dbVars, cmdVars, adminVars, lbVars, viewVars, fetchVars, fnVars, botVars>>

\* The next cycle, at least a second after the one before: check_player
\* fetches the profile, reads the cache and fetches the history, and
\* process_character_matches collects the new matches and returns at once
\* when there are none.  The cycles over an unchanged history with no failed
\* send in its window change nothing and are left out.
SeriesFetch ==
    /\ SeriesFrame
    /\ srpc = "idle"
    /\ \E k \in SeriesBursts :
          /\ srLatest + k <= srLimit
          /\ k = 0 => srPending \cap Window(srLatest) # {}
          /\ LET new == new_matches_list(SeriesHistory(srLatest + k), SeriesCached)
             IN  /\ srLatest' = srLatest + k
                 /\ srQueue' = Reverse(new)
                 /\ srpc' = IF new = <<>> THEN "idle" ELSE "send"
                 /\ srRetried' = \A mid \in srPending \cap Window(srLatest + k) :
                                     \E i \in 1..Len(new) : match_id(new[i]) = mid
    /\ now' = now + 1
    /\ srSends' = 0
    /\ srInserted' = 0
    /\ UNCHANGED <<cache, srDelivered, srTwice, srPending, srFailures, srLimit>>

\* One channel.send of the loop answers: delivered, or refused with an
\* HTTPException; after the last one the cache is cleaned up
SeriesSend ==
    /\ SeriesFrame
    /\ srpc = "send"
    /\ \E out \in {"ok"} \cup (IF srFailures < MaxSendFailures THEN {"HTTPException"} ELSE {}) :
          LET mid == match_id(Head(srQueue))
              saved == IF save_follows(out)
                       THEN save_match_to_cache(cache, 1, "SO", mid, now)
                       ELSE cache
          IN  /\ out = "ok" \/ SendCatches(out)
              /\ srDelivered' = IF out = "ok" THEN srDelivered \cup {mid} ELSE srDelivered
              /\ srTwice' = (srTwice \/ (out = "ok" /\ mid \in srDelivered))
              /\ srPending' = IF out = "ok" THEN srPending \ {mid} ELSE srPending \cup {mid}
              /\ srFailures' = IF out = "ok" THEN srFailures ELSE srFailures + 1
              /\ srSends' = srSends + 1
              /\ srInserted' = srInserted + Cardinality(saved \ cache)
              /\ srQueue' = Tail(srQueue)
              /\ IF Tail(srQueue) = <<>>
                 THEN /\ cache' \in cleanup_cache(saved, 1, "SO", CACHE_SIZE)
                      /\ srpc' = "idle"
                 ELSE /\ cache' = saved
                      /\ srpc' = "send"
    /\ UNCHANGED <<now, srLatest, srRetried, srLimit>>

InitSeries(limit) ==
    /\ players = [p \in {1} |-> "A"]
    /\ cache = {}
    /\ now = 0
    /\ TrackerQuiet
    /\ DbQuiet
    /\ CmdQuiet
    /\ AdminQuiet
    /\ LbQuiet
    /\ ViewQuiet
    /\ FetchQuiet
    /\ FnQuiet
    /\ BotQuiet
    /\ SeriesStart(limit)
    /\ ApiQuiet
    /\ RlInit({1})

NextSeries ==
    \/ SeriesFetch
    \/ SeriesSend

SpecSeries == InitSeries(MaxSeries) /\ [][NextSeries]_vars

\* The loop keeps starting cycles and every awaited send answers
FairSpecRetry ==
    /\ InitSeries(MaxRetrySeries)
    /\ [][NextSeries]_vars
    /\ WF_vars(SeriesFetch)
    /\ WF_vars(SeriesSend)

(***************************************************************************)
(* Claims about the poll cycle                                             *)
(***************************************************************************)

\* C1: whatever fails while one player is processed (a network or API
\* failure including a request timeout, a chat-platform failure, a
\* data-shape failure), poll_all_players catches it and never raises to its
\* caller.
C1_PollNeverRaises == pc # "raised"

ProbeRows == {r \in cache : <<r.player_id, r.character, r.match_id>> = probe}

UnseenAt(h, seen) ==
    {i \in 1..Len(h) : i <= 5 /\ h[i].opponent_id # 0
                        /\ <<h[i].timestamp, h[i].opponent_id>> \notin seen}

OldestFirst(h, seen) ==
    [k \in 1..Cardinality(UnseenAt(h, seen)) |->
        LET i == CHOOSE i \in UnseenAt(h, seen) :
                    Cardinality({j \in UnseenAt(h, seen) : j > i}) = k - 1
        IN  <<h[i].timestamp, h[i].opponent_id>>]

Attempted == [k \in 1..Len(scanSends) |-> scanSends[k][1]]

ToSend == [k \in 1..Len(sendq) |-> match_id(sendq[k])]

\* C3: in one per-character scan the announcements are exactly the entries
\* among the first 5 of the history whose match_id is not in the cache, sent
\* oldest first: the sends made so far followed by those still to make are
\* that list while the scan runs, the sends made are that list when the scan
\* returns, and a scan that an uncaught send failure ended made a prefix of it.
C3_OldestFirst ==
    /\ scanState = "running" =>
          Attempted \o ToSend = OldestFirst(scanHist, scanCache)
    /\ scanState = "done" =>
          /\ sendq = <<>>
          /\ Attempted = OldestFirst(scanHist, scanCache)
    /\ scanState = "aborted" =>
          /\ Len(Attempted) <= Len(OldestFirst(scanHist, scanCache))
          /\ Attempted = SubSeq(OldestFirst(scanHist, scanCache), 1, Len(Attempted))

\* Three unseen matches among the first five of a longer history, one of the
\* five already cached, all three delivered, the oldest before the newest.
C3_Witness ==
    /\ scanState = "done"
    /\ Len(scanHist) > 5
    /\ \E i \in 1..5 : match_id(scanHist[i]) \in scanCache
    /\ Len(scanSends) = 3
    /\ \A k \in 1..3 : scanSends[k][2]
    /\ scanSends[1][1][1] < scanSends[3][1][1]

(***************************************************************************)
(* Claims about the API client                                             *)
(***************************************************************************)
InRequest == op \in DataOps /\ requests >= 1

\* A failure the policy retries: an error status of retry_statuses, or a
\* failure of the transport.
Retryable(o) ==
    \/ o.kind = "transport"
    \/ o.kind = "response" /\ o.status >= 400 /\ o.status \in retry.retry_statuses

\* A failure the policy does not retry: another error status, or a body
\* that is no JSON.
NonRetryable(o) ==
    \/ o.kind = "response" /\ o.status >= 400 /\ o.status \notin retry.retry_statuses
    \/ o.kind = "response" /\ o.status < 400
          /\ o.read \in {"ContentTypeError", "JSONDecodeError"}

\* C4: _request never issues more than `attempts` requests; after a
\* retryable failure it goes on to another attempt as long as fewer than
\* `attempts` requests were issued, and a call that ends on a retryable
\* failure has issued exactly `attempts` requests and raises that failure: a
\* response error with the status, or the transport exception itself; a call
\* that returns a value ends on a successful request.
C4_RetryUntilExhausted ==
    /\ op \in DataOps => requests <= retry.attempts
    /\ (InRequest /\ Retryable(lastOutcome) /\ requests < retry.attempts) =>
          apc \in {"sleep", "request"}
    /\ (InRequest /\ Retryable(lastOutcome) /\ apc = "done") =>
          /\ requests = retry.attempts
          /\ result.tag = "raise"
          /\ lastOutcome.kind = "response" =>
                result.exc = "ApiResponseError" /\ result.status = lastOutcome.status
          /\ lastOutcome.kind = "transport" => result.exc = lastOutcome.exc
    /\ (InRequest /\ apc = "done" /\ result.tag = "return") =>
          lastOutcome.kind = "response" /\ lastOutcome.status < 400

\* Two retried failures, then the third and last attempt fails with 503.
C4_Witness ==
    /\ op \in DataOps /\ apc = "done"
    /\ retry.attempts = 3 /\ requests = 3
    /\ Len(sleeps) = 2
    /\ lastOutcome.kind = "response" /\ lastOutcome.status = 503
    /\ result = ApiRaise("ApiResponseError", 503)

\* C5: a non-retryable failure ends _request at once: no backoff sleep and no
\* request follows it, an error status outside retry_statuses raises
\* ApiResponseError with that status and a body that is no JSON raises
\* ApiDecodeError.
C5_NoRetry ==
    (InRequest /\ NonRetryable(lastOutcome)) =>
        /\ apc = "done"
        /\ Len(sleeps) = requests - 1
        /\ result.tag = "raise"
        /\ lastOutcome.status >= 400 =>
              result.exc = "ApiResponseError" /\ result.status = lastOutcome.status
        /\ lastOutcome.status < 400 => result.exc = "ApiDecodeError"

\* With attempts left, a status outside retry_statuses ends the call on the
\* second request.
C5_Witness ==
    /\ op \in DataOps /\ apc = "done"
    /\ retry.attempts >= 3 /\ requests = 2
    /\ lastOutcome.kind = "response" /\ lastOutcome.status = 400
    /\ 400 \notin retry.retry_statuses
    /\ result = ApiRaise("ApiResponseError", 400)

\* C6: the k-th backoff sleep of _request is backoff_base * backoff_factor^(k-1):
\* 0.5 s, 1.0 s, 2.0 s with the default policy; a sleep is taken only
\* between two attempts: each sleep follows a request and is followed by one,
\* and a call that ended took one sleep less than it issued requests.
C6_Backoff ==
    op \in DataOps =>
        /\ \A k \in 1..Len(sleeps) :
              sleeps[k] = IF k = 1 THEN retry.backoff_base
                          ELSE sleeps[k - 1] * retry.backoff_factor
        /\ (retry.backoff_base = 500 /\ retry.backoff_factor = 2) =>
              \A k \in 1..Len(sleeps) : k <= 3 => sleeps[k] = <<500, 1000, 2000>>[k]
        /\ apc = "sleep" => Len(sleeps) = requests /\ requests < retry.attempts
        /\ apc = "request" => Len(sleeps) = requests
        /\ (apc = "done" /\ requests >= 1) => Len(sleeps) = requests - 1

C6_Witness ==
    /\ op \in DataOps /\ apc = "done"
    /\ retry.backoff_base = 500 /\ retry.backoff_factor = 2
    /\ requests = 4
    /\ sleeps = <<500, 1000, 2000>>

\* C8: on every context exit the client closes the pool it holds if and
\* only if it created that pool itself.
C8_ClosesIffCreated ==
    lastExit.held # "none" => (lastExit.closed <=> lastExit.held = "created")

\* C37: every pool the client created itself in __aenter__ is closed by the
\* __aexit__ that follows, on every enter/exit cycle of the same client, also
\* when the client was constructed with a supplied pool and is entered again.
C37_CreatedPoolClosed == lastExit.held = "created" => lastExit.closed

\* C9: a data operation or health() called while the client holds no pool
\* raises RuntimeError in the same step: no request is issued, no token of
\* the limiter is taken and acquire() is not called.
C9_NoPoolRaises ==
    [][(ApiCall /\ session = "none") =>
          /\ apc' = "done"
          /\ result' = ApiRaise("RuntimeError", 0)
          /\ requests' = 0
          /\ rl_tokens' = rl_tokens
          /\ rl_pc' = rl_pc]_vars

\* get_player on a client with a limiter, after the context was exited.
C9_Witness ==
    /\ op = "get_player" /\ apc = "done"
    /\ rate_limiter
    /\ lastExit.held = "created" /\ session = "none"
    /\ result = ApiRaise("RuntimeError", 0)
    /\ requests = 0

\* The body is "OK" between two runs of whitespace.
TrimmedIsOK(b) ==
    \E i \in 1..Len(b) :
        /\ i < Len(b)
        /\ b[i] = "O" /\ b[i + 1] = "K"
        /\ \A j \in 1..Len(b) : (j < i \/ j > i + 1) => b[j] \in Whitespace

C7_AcquireReturns == \A t \in Tasks : (rl_pc[t] \in {"enter", "sleep"}) ~> (rl_pc[t] = "done")

\* C29: the bucket holds between 0 and capacity tokens; it starts full and a
\* refill sets it to exactly capacity, so the tokens left are capacity less
\* the tokens granted since the last fill; at most capacity tokens are
\* granted between two fills; and a refill happens only when at least the
\* interval has passed since the previous fill.
C29_TokenBucket ==
    /\ rl_tokens \in 0..rl_capacity
    /\ rl_granted \in 0..rl_capacity
    /\ rl_tokens = rl_capacity - rl_granted
    /\ rl_refill_at = -1 \/ rl_refill_at >= IntervalTicks

\* Two tasks emptied the bucket after a refill
C29_Witness ==
    /\ rl_capacity = MaxCapacity
    /\ rl_refill_at >= IntervalTicks
    /\ rl_tokens = 0
    /\ rl_granted = rl_capacity
    /\ \A t \in Tasks : rl_pc[t] = "done"

(***************************************************************************)
(* Claims about the database operations                                    *)
(***************************************************************************)
\* The n most recently created rows of the pair (p, ch)
LastCreated(p, ch, n) ==
    LET ks == SelectSeq(createdOrder, LAMBDA k : k[1] = p /\ k[2] = ch)
    IN  {ks[i] : i \in {j \in 1..Len(ks) : j > Len(ks) - n}}

\* C11: cleanup_cache(p, ch, n) deletes exactly the rows of the pair (p, ch)
\* that are not among its n most recently created rows, and no row of
\* another pair.
C11_KeepsMostRecent ==
    [][\A p \in PlayerIds, ch \in Chars, n \in 0..MaxKeep :
          DbCleanupOf(p, ch, n) =>
              cache' = {r \in cache : (r.player_id = p /\ r.character = ch)
                                          => Key(r) \in LastCreated(p, ch, n)}]_vars

\* C12: save_match_to_cache of a triple that is stored leaves the table as it
\* is: the row keeps its created_at and its place in the order of creation.
C12_SaveIdempotent ==
    [][(DbSave /\ dbOp'.existed) => (cache' = cache /\ createdOrder' = createdOrder)]_vars

\* A stored row of an earlier second was saved again.
C12_Witness ==
    /\ dbOp.op = "save" /\ dbOp.existed
    /\ \E r \in cache : r.player_id = dbOp.player_id /\ r.created_at < now

\* C13: after remove_player(p) no players row has id p and no match_cache
\* row has player_id p; the rows of every other player are as before.
C13_RemoveCascades ==
    [][\A p \in PlayerIds :
          DbRemoveOf(p) =>
              /\ p \notin DOMAIN players'
              /\ \A r \in cache' : r.player_id # p
              /\ DOMAIN players' = DOMAIN players \ {p}
              /\ \A q \in DOMAIN players' : players'[q] = players[q]
              /\ \A r \in cache : r.player_id # p => r \in cache'
              /\ cache' \subseteq cache]_vars

\* A tracked player with cache rows was removed; another player and a cache
\* row of another player remain.
C13_Witness ==
    /\ dbOp.op = "remove" /\ dbOp.existed /\ dbOp.deleted >= 1
    /\ players # <<>>
    /\ cache # {}

\* C14: add_player(p, name) inserts a row for a new id and overwrites the
\* name of a stored id; afterwards id p has one row, with that name, and the
\* rows of the other ids are as before.
C14_AddUpserts ==
    [][\A p \in PlayerIds, name \in Names :
          DbAddOf(p, name) =>
              /\ DOMAIN players' = DOMAIN players \cup {p}
              /\ players'[p] = name
              /\ \A q \in DOMAIN players \ {p} : players'[q] = players[q]]_vars

\* The name of a stored id was overwritten while another id is stored.
C14_Witness ==
    /\ dbOp.op = "add" /\ dbOp.existed
    /\ dbOp.old # players[dbOp.player_id]
    /\ Cardinality(DOMAIN players) = 2

(***************************************************************************)
(* Claims about the player-management commands                             *)
(***************************************************************************)
\* C15: after any sequence of add-player and remove-player commands no two
\* tracked players share a display name.
C15_NamesUnique ==
    \A p, q \in DOMAIN players : p # q => players[p] # players[q]

LookupFailed ==
    \/ lookup.tag = "raise"
    \/ lookup.tag = "return" /\ lookup.value = "empty"

AddEnded == cmd.op = "add" /\ cmdpc \in {"done", "raised"}

\* C16: when the lookup made by the add-player command fails (empty result,
\* response error, decode error or transport failure), the user receives the
\* "not found" message and the players table is as it was.
C16_FailedLookupNotFound ==
    (AddEnded /\ LookupFailed) =>
        /\ reply = "players.add.not_found_by_id"
        /\ players = tablesBefore[1]

\* C17: whatever the lookup of the add-player command does, no exception
\* leaves the handler and the handler ends by sending a message.
C17_AddNeverRaises ==
    /\ cmdpc # "raised"
    /\ (cmd.op = "add" /\ cmdpc = "done") => reply # ""

\* C18: the remove-player command answers an unknown name with the not-found
\* message and changes neither table; for a tracked name it removes a player
\* of that name together with all that player's cache rows, leaves every
\* other row alone, and confirms.
C18_RemoveCommand ==
    (cmd.op = "remove" /\ cmdpc = "done") =>
        LET bp == tablesBefore[1]
            bc == tablesBefore[2]
        IN  IF \A p \in DOMAIN bp : bp[p] # cmd.name
            THEN /\ reply = "players.remove.not_found"
                 /\ players = bp
                 /\ cache = bc
            ELSE /\ reply = "players.remove.removed"
                 /\ \E p \in DOMAIN bp :
                       /\ bp[p] = cmd.name
                       /\ players = [q \in DOMAIN bp \ {p} |-> bp[q]]
                       /\ cache = {r \in bc : r.player_id # p}

C18_Witness ==
    /\ cmd.op = "remove"
    /\ cmdpc = "done"
    /\ reply = "players.remove.removed"
    /\ Cardinality(tablesBefore[2]) = 2
    /\ Cardinality(cache) = 1
    /\ Cardinality(DOMAIN players) = 1

(***************************************************************************)
(* Claims about the owner-gated commands                                   *)
(***************************************************************************)
\* C19: when a user other than the configured owner invokes an owner-gated
\* command, the body of the command never runs: the invocation ends rejected,
\* with one ephemeral "owner-only" message as its only effect.
C19_NonOwnerRejected ==
    (admcmd \in OwnerGated /\ invoker # owner /\ admpc # "check") =>
        /\ admpc = "rejected"
        /\ admMsgs = <<Msg("Owner-only command.", TRUE)>>
        /\ admEffects = {}
        /\ ~botClosed

C19_Witness ==
    /\ admcmd = "shutdown"
    /\ invoker # owner
    /\ admpc = "rejected"
    /\ Len(admMsgs) = 1

(***************************************************************************)
(* Claims about the leaderboard pages                                      *)
(***************************************************************************)
\* The least k with k * b >= a
Ceil(a, b) == CHOOSE k \in 0..a : k * b >= a /\ (k - 1) * b < a

\* The places <<page, line>> where the entry shows
Places(entry) ==
    {<<pg, ln>> \in (1..Len(lbPages)) \X (1..MaxEntries) :
        ln <= Len(lbPages[pg].lines) /\ lbPages[pg].lines[ln].name = entry.name}

\* C20: n >= 1 entries give ceil(n / page_size) pages; entry i shows exactly
\* once, numbered #i, on page ceil(i / page_size); the footer of page k states
\* k and the number of pages; no entry gives exactly one placeholder page.
C20_Pages ==
    lbpc = "built" =>
        LET n == Len(lbData)
        IN  IF n = 0
            THEN lbPages = <<Placeholder>>
            ELSE /\ Len(lbPages) = Ceil(n, lbPageSize)
                 /\ \A i \in 1..n :
                       /\ Cardinality(Places(lbData[i])) = 1
                       /\ \A pl \in Places(lbData[i]) :
                             /\ pl[1] = Ceil(i, lbPageSize)
                             /\ lbPages[pl[1]].lines[pl[2]].idx = i
                 /\ \A k \in 1..Len(lbPages) :
                       lbPages[k].footer = Footer(k, Ceil(n, lbPageSize))

C20_Witness ==
    /\ lbpc = "built"
    /\ Len(lbData) = 23
    /\ lbPageSize = 10
    /\ Len(lbPages) = 3
    /\ lbPages[2].footer = Footer(2, 3)
    /\ lbPages[1].lines[1].idx = 1 /\ Len(lbPages[1].lines) = 10
    /\ lbPages[2].lines[1].idx = 11 /\ Len(lbPages[2].lines) = 10
    /\ lbPages[3].lines[1].idx = 21 /\ Len(lbPages[3].lines) = 3

(***************************************************************************)
(* Claims about the leaderboard view                                       *)
(***************************************************************************)
\* C21: from its construction on and after any clicks on previous and next,
\* the index of a LeaderboardView lies in 0 .. len(pages) - 1, the message
\* shows pages[index], previous is disabled exactly when index = 0 and next
\* exactly when index is the last page.
C21_ViewInRange ==
    vwpc = "open" =>
        /\ vwIndex \in 0..(Len(lbPages) - 1)
        /\ vwShown = lbPages[vwIndex + 1]
        /\ vwPrevDisabled <=> (vwIndex = 0)
        /\ vwNextDisabled <=> (vwIndex = Len(lbPages) - 1)

C21_Witness ==
    /\ vwpc = "open"
    /\ Len(lbPages) = 3
    /\ vwIndex = 2
    /\ vwNextDisabled
    /\ ~vwPrevDisabled
    /\ vwShown.footer = Footer(3, 3)

(***************************************************************************)
(* Claims about fetching the leaderboard                                   *)
(***************************************************************************)
\* The members of an object that hold a list, in the order of the object
ListMembers(fields) == SelectSeq(fields, LAMBDA kv : kv[2].type = "list")

\* C22: _fetch_leaderboard raises nothing; it returns the empty list when the
\* upstream call fails (response error, decode error, transport failure after
\* the retries), and for an answered payload the payload if it is a list, its
\* ranks list if it has one, else its first list-valued member, else the
\* empty list.
C22_FetchNeverRaises ==
    ftpc # "idle" =>
        /\ ftpc = "returned"
        /\ ftLookup.tag = "raise" => ftResult = <<>>
        /\ ftLookup.tag = "return" =>
              ftResult =
                 IF ftPayload.type = "list" THEN ftPayload.items
                 ELSE IF ftPayload.type = "dict" /\ ListMembers(ftPayload.fields) # <<>>
                      THEN IF JGet(ftPayload.fields, "ranks").type = "list"
                           THEN JGet(ftPayload.fields, "ranks").items
                           ELSE ListMembers(ftPayload.fields)[1][2].items
                 ELSE <<>>

(***************************************************************************)
(* Claims about the helper functions                                       *)
(***************************************************************************)
\* C23: calculate_rank(elo) is the rank of the largest threshold of the rank
\* table that is <= elo, and "Unranked" when elo is below every threshold.
C23_LargestThreshold ==
    fnpc = "calculate_rank" =>
        LET below == {i \in 1..Len(RANKS) : RANKS[i].threshold <= fnIn}
        IN  IF below = {} THEN fnOut = "Unranked"
            ELSE \E i \in below :
                    /\ fnOut = RANKS[i].rank
                    /\ \A j \in below : RANKS[j].threshold <= RANKS[i].threshold

C23_Witness ==
    /\ fnpc = "calculate_rank"
    /\ fnIn = 44999
    /\ fnOut = "Diamond 3"

\* The decimal digit of n at the place of 10^k
DigitAt(n, k) == DigitChars[((n \div k) % 10) + 1]

\* C24: str_elo(elo) is the last four decimal digits of elo, leading zeros
\* kept, followed by " DR" when elo > 45000 and its decimal representation
\* has exactly 8 characters; otherwise it is the decimal representation
\* followed by " RP".
C24_StrElo ==
    fnpc = "str_elo" =>
        IF fnIn > 45000 /\ fnIn >= 10000000 /\ fnIn <= 99999999
        THEN fnOut = <<DigitAt(fnIn, 1000), DigitAt(fnIn, 100), DigitAt(fnIn, 10),
                       DigitAt(fnIn, 1), " ", "D", "R">>
        ELSE /\ Len(fnOut) >= 4
             /\ SubSeq(fnOut, Len(fnOut) - 2, Len(fnOut)) = <<" ", "R", "P">>
             /\ LET body == SubSeq(fnOut, 1, Len(fnOut) - 3)
                    neg == body[1] = "-"
                    ds == IF neg THEN Tail(body) ELSE body
                    mag == IF fnIn < 0 THEN 0 - fnIn ELSE fnIn
                IN  /\ neg <=> fnIn < 0
                    /\ ds # <<>>
                    /\ Len(ds) > 1 => ds[1] # "0"
                    /\ \A k \in 1..Len(ds) :
                          ds[Len(ds) + 1 - k] = DigitAt(mag, Pow(10, k - 1))
                    /\ mag < Pow(10, Len(ds))

C24_Witness ==
    /\ fnpc = "str_elo"
    /\ fnIn = 10000234
    /\ fnOut = <<"0", "2", "3", "4", " ", "D", "R">>

(***************************************************************************)
(* Claims about i18n                                                       *)
(***************************************************************************)
\* The longest prefix of cs without "." and "_", lower-cased
LanguageOf(cs) ==
    LET stops == {i \in 1..Len(cs) : cs[i] \in {".", "_"}}
        n == IF stops = {} THEN Len(cs)
             ELSE (CHOOSE i \in stops : \A j \in stops : i <= j) - 1
    IN  [i \in 1..n |-> ToLower(cs[i])]

\* C25 as stated: _normalize_locale drops everything from the first "." on,
\* lower-cases the rest and cuts it at the first "_"; an empty or absent
\* input gives "en".
C25_NormalizeAsStated ==
    fnpc = "_normalize_locale" =>
        fnOut = IF fnIn.absent \/ fnIn.chars = <<>> THEN <<"e", "n">>
                ELSE LanguageOf(fnIn.chars)

\* C25, amended: _normalize_locale first strips surrounding whitespace; an
\* absent, empty or blank input gives "en"; otherwise everything from the first
\* "." on is dropped, the rest is lower-cased and cut at the first "_".
C25_NormalizeStripped ==
    fnpc = "_normalize_locale" =>
        fnOut = IF fnIn.absent \/ Strip(fnIn.chars) = <<>> THEN <<"e", "n">>
                ELSE LanguageOf(Strip(fnIn.chars))

C25_Witness ==
    /\ fnpc = "_normalize_locale"
    /\ fnIn = Raw(FALSE, <<" ", "f", "r", "_", "F", "R", "\n">>)
    /\ fnOut = <<"f", "r">>

\* The catalog of a locale holds a template for the key
Stored(locale, key) ==
    /\ locale \in DOMAIN fnIn.self.translations
    /\ key \in DOMAIN fnIn.self.translations[locale]

\* C26: I18n.t(key) returns the template stored for key in the requested (or
\* default) locale when there is one, otherwise the template stored for key in
\* the default locale, otherwise "[key]"; with parameters that supply every
\* placeholder the placeholders are substituted.
C26_Translate ==
    fnpc = "t" =>
        LET lang == IF fnIn.locale # "" THEN fnIn.locale ELSE fnIn.self.default_locale
            dflt == fnIn.self.default_locale
            tr == fnIn.self.translations
            key == fnIn.key
            template == IF Stored(lang, key) THEN tr[lang][key] ELSE tr[dflt][key]
        IN  IF ~Stored(lang, key) /\ ~Stored(dflt, key)
            THEN fnOut = Bracketed(key)
            ELSE IF fnIn.fmt = NoFmt
                 THEN fnOut = template
                 ELSE (\A i \in 1..Len(template) :
                          template[i].kind = "ph" => template[i].text \in DOMAIN fnIn.fmt)
                      => /\ Len(fnOut) = Len(template)
                         /\ \A i \in 1..Len(template) :
                               fnOut[i] = IF template[i].kind = "ph"
                                          THEN Lit(fnIn.fmt[template[i].text])
                                          ELSE template[i]

(***************************************************************************)
(* Further claims about the poll cycle                                     *)
(***************************************************************************)
\* The sends of the latest scan that failed with an error of the chat platform
PlatformFailures ==
    {k \in 1..Len(scanSends) : ~scanSends[k][2] /\ scanSends[k][3] = "HTTPException"}

\* C28: a send that fails with an error of the chat platform does not end the
\* scan: the scan goes on with the next new match, every later match whose
\* send succeeds is recorded in the cache, the cleanup runs once, after the
\* last send, and the scan returns the number of new matches it found.
C28_SendFailureContinues ==
    /\ scanState = "aborted" => Len(scanSends) \notin PlatformFailures
    /\ (scanState = "running" /\ PlatformFailures # {}) =>
          /\ sendq # <<>>
          /\ \A k \in 1..Len(scanSends) : ~scanSends[k][4]
    /\ (scanState = "done" /\ PlatformFailures # {}) =>
          /\ Len(scanSends) = new_count
          /\ new_count = Len(OldestFirst(scanHist, scanCache))
          /\ \A k \in 1..Len(scanSends) : scanSends[k][4] <=> k = Len(scanSends)
          /\ \A k \in 1..Len(scanSends) :
                scanSends[k][2] => \E r \in cache : r.match_id = scanSends[k][1]

C28_Witness ==
    /\ scanState = "done"
    /\ Len(scanSends) = 3
    /\ 1 \in PlatformFailures
    /\ scanSends[1][3] = "HTTPException"
    /\ scanSends[2][2] /\ scanSends[3][2]
    /\ scanSends[3][4]
    /\ new_count = 3

\* C33: the orchestrator writes a match id to the cache only after the
\* announcement of that match was delivered: a row enters match_cache only in
\* the step in which a send of its match, for the player and character being
\* scanned, succeeded, and the step of a failed send adds no row.
C33_SavedAfterDelivery ==
    [][LET sent == Len(scanSends') = Len(scanSends) + 1
           last == scanSends'[Len(scanSends')]
       IN  /\ \A r \in cache' \ cache :
                 /\ sent
                 /\ last[2]
                 /\ <<r.player_id, r.character, r.match_id>> = <<CurId, CurChar, last[1]>>
           /\ (sent /\ ~last[2]) => cache' \subseteq cache]_vars

\* A scan in which one send failed and a later one was delivered and saved
C33_Witness ==
    /\ Len(scanSends) >= 2
    /\ ~scanSends[1][2]
    /\ scanSends[2][2]
    /\ scanSends[1][1] # scanSends[2][1]
    /\ \E r \in cache : r.match_id = scanSends[2][1]
    /\ ~\E r \in cache : r.match_id = scanSends[1][1]

\* C27: when a match id occurs twice among the checked entries of one
\* history, only its first occurrence is announced: the match id is delivered
\* to the channel at most once, in that cycle and in all later ones.
C27_DuplicateOnce == dupEver => announced <= 1


(***************************************************************************)
(* Claims about the scheduled task of bot.py                               *)
(***************************************************************************)
\* The invocations of poll_matches that have begun and not returned
InCycle == {i \in 1..Len(botLoops) : botLoops[i].pc \in {"wait_until_ready", "players"}}

\* C30: at most one poll cycle is in progress at any time: the scheduled
\* task is started at most once however often the ready event fires, and a
\* cycle begins only when every cycle begun before it has finished.
C30_OneCycle ==
    /\ Cardinality(InCycle) <= 1
    /\ botStartCalls <= 1
    /\ Len(botLoops) <= 1
    /\ botBegun - botEnded = Cardinality(InCycle)

C30_Witness ==
    /\ botEvents >= 2
    /\ botSkipped >= 1
    /\ botStartCalls = 1
    /\ botBegun >= 2
    /\ botEnded = botBegun - 1
    /\ InCycle # {}


\* C31: a scheduled invocation of poll_matches that finds the channel
\* unresolved is a no-op: it reads no players, makes no upstream request,
\* sends nothing and leaves the players table and the match cache as they
\* were; and a ready event that finds the channel unresolved does not start
\* the scheduled task.
C31_NoChannelNoOp ==
    [][/\ (botEvents' # botEvents /\ ~botChannel) =>
              /\ botLoops' = botLoops
              /\ botStartCalls' = botStartCalls
       /\ \A i \in 1..Len(botLoops') :
              botLoops'[i].inv.resolved = "no" =>
                  /\ botLoops'[i].inv.reads = 0
                  /\ botLoops'[i].inv.requests = 0
                  /\ botLoops'[i].inv.sends = 0
                  /\ botLoops'[i].inv.before = <<players', cache'>>
                  /\ botLoops'[i].pc \in {"sleep", "due"}]_vars

C31_Witness ==
    /\ Len(botLoops) = 1
    /\ botLoops[1].inv.resolved = "no"
    /\ botLoops[1].pc = "sleep"
    /\ botLoops[1].inv.before = <<players, cache>>
    /\ cache # {}
    /\ botBegun >= 2
    /\ botEvents > botStartCalls + botSkipped


(***************************************************************************)
(* Claims about the commands during a poll cycle                           *)
(***************************************************************************)
\* C32: whatever the interleaving of the add-player and remove-player
\* commands with a poll cycle in progress, every match_cache row belongs to
\* a player of the players table.
C32_NoOrphanRows == \A r \in cache : r.player_id \in DOMAIN players


(***************************************************************************)
(* Claims about one character over many poll cycles                        *)
(***************************************************************************)
\* C34: over any number of consecutive cycles of a tracked player, when the
\* history only grows at its head by matches with new ids and every send
\* succeeds, no match is announced more than once: the cleanup that keeps the
\* CACHE_SIZE most recently cached ids never drops an id that is still among
\* the first MATCHES_TO_CHECK entries of the history.
C34_NeverTwice ==
    srFailures = 0 =>
        /\ ~srTwice
        /\ srpc = "idle" => (srDelivered \cap Window(srLatest)) \subseteq SeriesCached

C34_Witness ==
    /\ srFailures = 0
    /\ srpc = "idle"
    /\ Cardinality(srDelivered) > CACHE_SIZE + 1
    /\ Cardinality(SeriesCached) = CACHE_SIZE
    /\ Window(srLatest) \subseteq SeriesCached


\* C35: one scan of a character sends at most MATCHES_TO_CHECK
\* announcements and inserts at most MATCHES_TO_CHECK rows, and once a scan
\* that found new matches has completed, match_cache holds at most
\* CACHE_SIZE rows of that player and character.
C35_ScanBounds ==
    /\ srSends <= MATCHES_TO_CHECK
    /\ srInserted <= MATCHES_TO_CHECK
    /\ srInserted <= srSends
    /\ (srpc = "idle" /\ srSends > 0) => Cardinality(PairRows(cache, 1, "SO")) <= CACHE_SIZE

C35_Witness ==
    /\ srpc = "idle"
    /\ srSends = MATCHES_TO_CHECK
    /\ srInserted = MATCHES_TO_CHECK
    /\ Cardinality(PairRows(cache, 1, "SO")) = CACHE_SIZE
    /\ Cardinality(srDelivered) >= CACHE_SIZE + MATCHES_TO_CHECK - 2


\* The match ids whose last send failed and that are still among the first
\* MATCHES_TO_CHECK entries of the history
PendingInWindow == srPending \cap Window(srLatest)

C38_RemovedNameGone ==
    (cmd.op = "remove" /\ reply = "players.remove.removed") =>
        \A d \in get_all_players(players) : cmd.name \notin DictKeys(d)


(***************************************************************************)
(* Further claims about the I18n instance                                  *)
(***************************************************************************)
\* C39: after construction and after any calls of set_default_locale and
\* load_all, whenever at least one locale is loaded the default locale is
\* one of the loaded locales; and set_default_locale with a locale that is
\* not loaded leaves the default locale as it was.
C39_DefaultIsLoaded ==
    /\ []((fnpc # "idle" /\ DOMAIN fnOut.translations # {}) =>
             fnOut.default_locale \in DOMAIN fnOut.translations)
    /\ [][(fnpc' = "set_default_locale"
             /\ normalize_locale(fnIn'.locale) \notin DOMAIN fnOut.translations) =>
                fnOut'.default_locale = fnOut.default_locale]_vars

================================================================
